---- MODULE Spec2Model ----
(***************************************************************************)
(* A model of pr-agent's PR-content pipeline: the diff summarizer, the     *)
(* title post-processing, the PR body assembler, the Copilot generation    *)
(* client and the ticket-number resolution.                                *)
(*                                                                         *)
(* A Python str is modelled as a sequence of one-character strings, so     *)
(* that split, join, strip, startswith, lower and len are computed and     *)
(* not assumed.                                                            *)
(***************************************************************************)
EXTENDS Integers, Sequences, FiniteSets, TLC

VARIABLES
    pc,             \* position of the operation under way
    diff,           \* extract_diff_summary: the diff text
    max_length,     \* extract_diff_summary: the budget of the first call
    summary,        \* the text returned by the first call
    max_length2,    \* the budget of the re-summarization
    summary2,       \* the text returned by the re-summarization
    ticket_number,  \* generate_title: the ticket identifier
    reply,          \* generate_title: what llm_client.generate returned
    title,          \* generate_title: the returned title
    template_sections,  \* format_pr_body: the section headers
    sections,       \* format_pr_body: index i -> content under key "section_i"
    body_parts,     \* format_pr_body: the list joined at the end
    body,           \* format_pr_body: the returned document
    response,       \* CopilotClient: how the backend answers the request
    result,         \* CopilotClient.generate: the text returned or the exception raised
    failures,       \* exceptions generate raised so far, with the case that caused each
    branch_name,    \* get_ticket_number: git_ops.get_current_branch()
    ticket_pattern, \* config.ticket_pattern, "<prefix>-(\d+)", as its prefix
    llm_client,     \* the client passed: "none", "ollama" or "copilot"
    returned_ticket, \* the value get_ticket_number returned
    method,         \* the stage that produced it: "regex", "llm" or "manual"
    stage2_error,   \* the exception the generative stage raised, or "none"
    section_index,  \* generate_description: i of the section loop
    description_error, \* the exception that left generate_description, or "none"
    generate_calls, \* llm_client.generate calls the section loop has made
    template_content,  \* parse_template_sections: the markdown text given
    parsed_sections,   \* parse_template_sections: the list returned
    template_files,    \* the three candidate locations of the template
    read_result,       \* read_pr_template: the text returned, or None
    heap,              \* list objects by reference; reference 0 is DEFAULT_SECTIONS
    call_log,          \* get_pr_template_sections: per call, situation and result
    cli_args,          \* load_config: the command line arguments
    file_config,       \* load_config: the settings of the config file, or None
    environ,           \* load_config: the PR_AGENT_ environment variables
    config,            \* load_config: the Config returned
    dry_run,           \* create: the --dry-run flag
    has_uncommitted,   \* create: git_ops.has_uncommitted_changes()
    committed,         \* create: the tool has committed the changes
    branch_on_remote,  \* create: the branch exists on the remote
    preview_shown,     \* create: display_preview has run
    pushed,            \* create: push_current_branch has run
    pr_created,        \* create: create_pull_request has run
    exit_code,         \* create: the exit status, or None while running
    content_generated, \* create: generate_title and generate_description returned
    creation_confirmed, \* create: "Create this pull request?" was answered yes
    create_pr_calls,   \* create: calls of github_ops.create_pull_request
    refusal,           \* create: a declined question or a failed push, or "none"
    llm_response,      \* extract_ticket_number of a client: what generate returned
    ticket_prefix,     \* its ticket_prefix argument
    extracted,         \* the value it returned
    feedback_history,  \* generate_description: the feedback list passed
    repo_diff,         \* what git_ops.get_diff gives: a text, or that it raised
    max_diff_tokens,   \* PRGenerator.max_diff_tokens
    backend,           \* section index -> what llm_client.generate does when called
    generator_calls,   \* the section generators called, in the order of the calls
    prompts_sent,      \* the prompts passed to llm_client.generate, in order
    device_info,       \* _poll_for_token: interval and expires_in of the device code
    interval,          \* the seconds slept before the next poll
    max_attempts,      \* expires_in // interval, computed before the loop
    attempt,           \* polls made so far
    last_reply,        \* what the latest poll got
    earlier_token,     \* a poll before the latest got an access token
    poll_result,       \* how _poll_for_token ended, or None while it runs
    cache,             \* get_copilot_token: the file api-key.json
    now,               \* the clock, in minutes
    token_calls,       \* calls of get_copilot_token made so far
    token_call         \* the latest call: what it found, what it did, how it ended

summaryVars == <<diff, max_length, summary, max_length2, summary2>>
titleVars == <<ticket_number, reply, title>>
bodyVars == <<template_sections, sections, body_parts, body>>
clientVars == <<response, result, failures>>
ticketVars ==
    <<branch_name, ticket_pattern, llm_client, returned_ticket, method, stage2_error>>
descriptionVars == <<section_index, description_error, generate_calls>>
templateVars ==
    <<template_content, parsed_sections, template_files, read_result, heap, call_log>>
configVars == <<cli_args, file_config, environ, config>>
createVars ==
    <<dry_run, has_uncommitted, committed, branch_on_remote, preview_shown, pushed,
      pr_created, exit_code, content_generated, creation_confirmed, create_pr_calls,
      refusal>>
replyVars == <<llm_response, ticket_prefix, extracted>>
runVars ==
    <<feedback_history, repo_diff, max_diff_tokens, backend, generator_calls,
      prompts_sent>>
pollVars ==
    <<device_info, interval, max_attempts, attempt, last_reply, earlier_token,
      poll_result>>
tokenVars == <<cache, now, token_calls, token_call>>
laterVars == <<replyVars, runVars, pollVars, tokenVars>>
vars ==
    <<pc, summaryVars, titleVars, bodyVars, clientVars, ticketVars, descriptionVars,
      templateVars, configVars, createVars, laterVars>>

\* A value standing for Python's None (and for a key a dict does not have):
\* a sequence that is no text, since a text holds single characters only.
None == <<"None">>

----------------------------------------------------------------------------
(* Python str operations on sequences of characters.                       *)

\* str.isspace for one character (the whitespace str.strip removes).
IsSpace(c) == c \in {" ", "\n", "\t", "\r"}

\* s.startswith(p)
StartsWith(s, p) ==
    /\ Len(s) >= Len(p)
    /\ \A i \in 1..Len(p) : s[i] = p[i]

\* s.endswith(p)
EndsWith(s, p) ==
    /\ Len(s) >= Len(p)
    /\ \A i \in 1..Len(p) : s[Len(s) - Len(p) + i] = p[i]

\* s.lstrip()
RECURSIVE LStrip(_)
LStrip(s) == IF s # <<>> /\ IsSpace(Head(s)) THEN LStrip(Tail(s)) ELSE s

\* s.rstrip()
RECURSIVE RStrip(_)
RStrip(s) ==
    IF s # <<>> /\ IsSpace(s[Len(s)]) THEN RStrip(SubSeq(s, 1, Len(s) - 1)) ELSE s

\* s.strip()
Strip(s) == RStrip(LStrip(s))

\* s.split('\n'): always at least one piece.
RECURSIVE SplitLines(_)
SplitLines(s) ==
    IF \E i \in 1..Len(s) : s[i] = "\n"
    THEN LET i == CHOOSE k \in 1..Len(s) :
                      s[k] = "\n" /\ \A j \in 1..(k - 1) : s[j] # "\n"
         IN  <<SubSeq(s, 1, i - 1)>> \o SplitLines(SubSeq(s, i + 1, Len(s)))
    ELSE <<s>>

\* '\n'.join(parts)
RECURSIVE JoinLines(_)
JoinLines(parts) ==
    IF parts = <<>> THEN <<>>
    ELSE IF Len(parts) = 1 THEN parts[1]
    ELSE parts[1] \o <<"\n">> \o JoinLines(Tail(parts))

UpperLetters ==
    <<"A", "B", "C", "D", "E", "F", "G", "H", "I", "J", "K", "L", "M",
      "N", "O", "P", "Q", "R", "S", "T", "U", "V", "W", "X", "Y", "Z">>

LowerLetters ==
    <<"a", "b", "c", "d", "e", "f", "g", "h", "i", "j", "k", "l", "m",
      "n", "o", "p", "q", "r", "s", "t", "u", "v", "w", "x", "y", "z">>

LowerChar(c) ==
    IF \E i \in 1..Len(UpperLetters) : UpperLetters[i] = c
    THEN LowerLetters[CHOOSE i \in 1..Len(UpperLetters) : UpperLetters[i] = c]
    ELSE c

UpperChar(c) ==
    IF \E i \in 1..Len(LowerLetters) : LowerLetters[i] = c
    THEN UpperLetters[CHOOSE i \in 1..Len(LowerLetters) : LowerLetters[i] = c]
    ELSE c

\* s.lower()
Lower(s) == [i \in 1..Len(s) |-> LowerChar(s[i])]

\* s.upper()
Upper(s) == [i \in 1..Len(s) |-> UpperChar(s[i])]

\* The sequences over S of length at most n.
SeqsUpTo(S, n) == UNION {[1..k -> S] : k \in 0..n}

----------------------------------------------------------------------------
(* prompts.py: PRPrompts.extract_diff_summary                              *)

TRUNCATION_MARKER ==
    <<".", ".", ".", " ", "(", "d", "i", "f", "f", " ",
      "t", "r", "u", "n", "c", "a", "t", "e", "d", ")">>

DIFF_GIT == <<"d", "i", "f", "f", " ", "-", "-", "g", "i", "t">>

\* The first branch of the loop: file headers and hunk markers.
IsStructuralLine(line) ==
    \/ StartsWith(line, DIFF_GIT)
    \/ StartsWith(line, <<"+", "+", "+">>)
    \/ StartsWith(line, <<"-", "-", "-">>)
    \/ StartsWith(line, <<"@", "@">>)

\* Every other line that is not empty taken for a content line as well.
IsContentLineOrContext(line) == ~IsStructuralLine(line) /\ line # <<>>

\* The elif branch: an added or a removed line.
IsContentLine(line) ==
    /\ ~IsStructuralLine(line)
    /\ (StartsWith(line, <<"+">>) \/ StartsWith(line, <<"-">>))

\* The comparison turned round: content lines kept only above the reserve.
BelowReserveInverted(char_count, budget) == 10 * char_count > 7 * budget

\* char_count < max_length * 0.7, in integers (the two agree for every pair
\* of integers of the sizes a diff has).
BelowReserve(char_count, budget) == 10 * char_count < 7 * budget

\* Whether the loop body appends the line to summary_lines.
KeepsLine(line, char_count, budget) ==
    \/ IsStructuralLine(line)
    \/ IsContentLine(line) /\ BelowReserve(char_count, budget)

\* The for loop over lines, from line i on, with the lines kept so far and
\* their character count; the result is summary_lines at the end.
RECURSIVE SummaryLoop(_, _, _, _, _)
SummaryLoop(lines, i, summary_lines, char_count, budget) ==
    IF i > Len(lines) THEN summary_lines
    ELSE LET keep == KeepsLine(lines[i], char_count, budget)
             kept == IF keep THEN Append(summary_lines, lines[i]) ELSE summary_lines
             count == IF keep THEN char_count + Len(lines[i]) ELSE char_count
         IN  IF count >= budget
             THEN Append(kept, TRUNCATION_MARKER)
             ELSE SummaryLoop(lines, i + 1, kept, count, budget)

\* The same loop seen line by line: for every line the loop looks at, whether
\* it was kept and char_count before and after it.
RECURSIVE ScanTrace(_, _, _, _)
ScanTrace(lines, i, char_count, budget) ==
    IF i > Len(lines) THEN <<>>
    ELSE LET keep == KeepsLine(lines[i], char_count, budget)
             count == IF keep THEN char_count + Len(lines[i]) ELSE char_count
         IN  <<[kept |-> keep, before |-> char_count, after |-> count]>>
                \o (IF count >= budget THEN <<>>
                    ELSE ScanTrace(lines, i + 1, count, budget))

\* summary_lines when the function returns.
SummaryLines(d, budget) == SummaryLoop(SplitLines(d), 1, <<>>, 0, budget)

extract_diff_summary(d, budget) == JoinLines(SummaryLines(d, budget))

\* Whether the call left the loop at the break. No line of the input is kept
\* unless it starts with a marker prefix or with + or -, so the last kept line
\* is the truncation marker only when the break appended it.
Truncated(d, budget) ==
    LET kept == SummaryLines(d, budget)
    IN  kept # <<>> /\ kept[Len(kept)] = TRUNCATION_MARKER

----------------------------------------------------------------------------
(* pr_generator.py: PRGenerator.generate_title, after llm_client.generate  *)
(* returned.                                                               *)

\* title.split(":", 1)[1]: the text after the first colon.
\* The text after the last colon in place of the first.
AfterLastColon(s) ==
    LET i == CHOOSE k \in 1..Len(s) : s[k] = ":" /\ \A j \in (k + 1)..Len(s) : s[j] # ":"
    IN  SubSeq(s, i + 1, Len(s))

AfterFirstColon(s) ==
    LET i == CHOOSE k \in 1..Len(s) : s[k] = ":" /\ \A j \in 1..(k - 1) : s[j] # ":"
    IN  SubSeq(s, i + 1, Len(s))

HasColon(s) == \E i \in 1..Len(s) : s[i] = ":"

\* The post-processing left out: the reply is returned as generated.
generate_title_unchecked(ticket, generated) == Strip(generated)

generate_title(ticket, generated) ==
    IF ~StartsWith(generated, ticket)
    THEN LET description == IF HasColon(generated)
                            THEN Strip(AfterFirstColon(generated))
                            ELSE Strip(generated)
         IN  Strip(ticket \o <<":", " ">> \o description)
    ELSE Strip(generated)

----------------------------------------------------------------------------
(* pr_generator.py: PRGenerator.format_pr_body                             *)

NO_ADDITIONAL_NOTES ==
    <<"N", "o", " ", "a", "d", "d", "i", "t", "i", "o", "n", "a", "l", " ",
      "n", "o", "t", "e", "s", ".">>

\* The literal content.lower() is compared with.
NO_ADDITIONAL_NOTES_LOWER ==
    <<"n", "o", " ", "a", "d", "d", "i", "t", "i", "o", "n", "a", "l", " ",
      "n", "o", "t", "e", "s", ".">>

\* sections.get(f"section_{i}", ""), i counted from 0.
SectionGet(secs, i) == IF i \in DOMAIN secs THEN secs[i] ELSE <<>>

\* The heading written one level deeper.
SectionHeadingLevel3(section_header) == <<"#", "#", "#", " ">> \o section_header

\* f"## {section_header}"
SectionHeading(section_header) == <<"#", "#", " ">> \o section_header

\* The sentinel compared without lower().
SectionContentCaseSensitive(secs, n, i) ==
    LET content == SectionGet(secs, i)
    IN  IF i = n - 1
        THEN IF content # <<>> /\ content # NO_ADDITIONAL_NOTES_LOWER
             THEN content
             ELSE NO_ADDITIONAL_NOTES
        ELSE content

\* The sentinel put in for every section, not only for the last.
SectionContentEverySection(secs, n, i) ==
    LET content == SectionGet(secs, i)
    IN  IF content # <<>> /\ Lower(content) # NO_ADDITIONAL_NOTES_LOWER
        THEN content
        ELSE NO_ADDITIONAL_NOTES

\* What the loop appends as the content of section i (counted from 0) of n.
SectionContent(secs, n, i) ==
    LET content == SectionGet(secs, i)
    IN  IF i = n - 1
        THEN IF content # <<>> /\ Lower(content) # NO_ADDITIONAL_NOTES_LOWER
             THEN content
             ELSE NO_ADDITIONAL_NOTES
        ELSE content

\* body_parts after the loop: per section the heading, a blank line, the
\* content and a blank line.
RECURSIVE BodyParts(_, _, _)
BodyParts(secs, template, i) ==
    IF i >= Len(template) THEN <<>>
    ELSE <<SectionHeading(template[i + 1]), <<>>,
           SectionContent(secs, Len(template), i), <<>>>>
            \o BodyParts(secs, template, i + 1)

format_pr_body(secs, template) == Strip(JoinLines(BodyParts(secs, template, 0)))

----------------------------------------------------------------------------
(* llm_client.py: CopilotClient._post and CopilotClient.generate           *)
(*                                                                         *)
(* A backend answer is a record: [kind |-> "refused"] or "timeout" when    *)
(* requests.post raises, else [kind |-> "http", status, data] with data    *)
(* [json |-> FALSE] (undecodable) or [json |-> TRUE, has_choices |-> b,    *)
(* choices |-> a list of choices], has_choices telling whether the key is  *)
(* there with a value other than null. A choice is [message |-> m], m being*)
(* [t |-> "missing"] or [t |-> "dict", content |-> c]. A content c is      *)
(* [t |-> "missing"], [t |-> "other"] (not a string, not a list),          *)
(* [t |-> "str", v |-> text] or [t |-> "list", v |-> blocks], a block      *)
(* being [text |-> None or a text].                                        *)

Returned(text) == [ok |-> TRUE, text |-> text]
Raised(cls, msg) == [ok |-> FALSE, cls |-> cls, msg |-> msg]

\* _post: the decoded JSON, or the exception that leaves _post.
Post(resp) ==
    IF resp.kind = "refused"
    THEN Raised("requests.ConnectionError", "connection refused")
    ELSE IF resp.kind = "timeout"
    THEN Raised("requests.Timeout", "timed out")
    ELSE IF resp.status >= 400
    THEN IF resp.status = 401
         THEN Raised("LLMError", "Copilot authentication failed")
         ELSE Raised("LLMError", "Copilot request failed")
    ELSE IF ~resp.data.json
    THEN Raised("LLMError", "Failed to parse Copilot response")
    ELSE [ok |-> TRUE, data |-> resp.data]

\* [block.get("text", "") for block in content if block.get("text")]
RECURSIVE TextBlocks(_)
TextBlocks(blocks) ==
    IF blocks = <<>> THEN <<>>
    ELSE IF Head(blocks).text # None /\ Head(blocks).text # <<>>
    THEN <<Head(blocks).text>> \o TextBlocks(Tail(blocks))
    ELSE TextBlocks(Tail(blocks))

\* The content after the isinstance(content, list) branch.
NormalizedContent(content) ==
    IF content.t = "list"
    THEN [t |-> "str", v |-> JoinLines(TextBlocks(content.v))]
    ELSE content

\* generate, from the answer of the backend to the value returned or the
\* exception raised.
generate(resp) ==
    LET posted == Post(resp)
    IN  IF ~posted.ok THEN posted
        ELSE IF ~posted.data.has_choices \/ posted.data.choices = <<>>
        THEN Raised("LLMError", "Copilot returned no choices")
        ELSE LET message == posted.data.choices[1].message
                 content == IF message.t = "missing" THEN [t |-> "missing"]
                            ELSE NormalizedContent(message.content)
             IN  IF content.t # "str"
                 THEN Raised("LLMError", "Copilot response missing text content")
                 ELSE Returned(Strip(content.v))

----------------------------------------------------------------------------
(* Ticket extraction: git_operations.py GitOperations.extract_ticket_number,*)
(* the clients' extract_ticket_number and cli.py get_ticket_number.        *)
(*                                                                         *)
(* A ticket pattern has the shape <prefix>-(\d+), the prefix being literal *)
(* text, and is modelled by its prefix.                                    *)

IsDigit(c) == c \in {"0", "1", "2", "3", "4", "5", "6", "7", "8", "9"}

IsUpperLetter(c) == \E i \in 1..Len(UpperLetters) : UpperLetters[i] = c

\* One pattern character against one text character, with or without
\* re.IGNORECASE.
CharMatches(p, c, ignorecase) ==
    IF ignorecase THEN LowerChar(p) = LowerChar(c) ELSE p = c

\* An underscore accepted as the separator as well as the dash.
MatchesAtAnySeparator(prefix, text, i, ignorecase) ==
    /\ i + Len(prefix) + 1 <= Len(text)
    /\ \A k \in 1..Len(prefix) : CharMatches(prefix[k], text[i + k - 1], ignorecase)
    /\ text[i + Len(prefix)] \in {"-", "_"}
    /\ IsDigit(text[i + Len(prefix) + 1])

\* Whether <prefix>-\d+ matches the text at position i.
MatchesAt(prefix, text, i, ignorecase) ==
    /\ i + Len(prefix) + 1 <= Len(text)
    /\ \A k \in 1..Len(prefix) : CharMatches(prefix[k], text[i + k - 1], ignorecase)
    /\ text[i + Len(prefix)] = "-"
    /\ IsDigit(text[i + Len(prefix) + 1])

\* The last position of the greedy run of digits that starts at position j.
RECURSIVE DigitsEnd(_, _)
DigitsEnd(text, j) ==
    IF j + 1 <= Len(text) /\ IsDigit(text[j + 1]) THEN DigitsEnd(text, j + 1) ELSE j

\* The rightmost match in place of the leftmost.
RegexSearchLast(prefix, text, ignorecase) ==
    IF \E i \in 1..Len(text) : MatchesAt(prefix, text, i, ignorecase)
    THEN LET i == CHOOSE k \in 1..Len(text) :
                      /\ MatchesAt(prefix, text, k, ignorecase)
                      /\ \A j \in (k + 1)..Len(text) : ~MatchesAt(prefix, text, j, ignorecase)
         IN  SubSeq(text, i, DigitsEnd(text, i + Len(prefix) + 1))
    ELSE None

\* re.search(<prefix>-(\d+), text).group(0): the leftmost match, or None.
RegexSearch(prefix, text, ignorecase) ==
    IF \E i \in 1..Len(text) : MatchesAt(prefix, text, i, ignorecase)
    THEN LET i == CHOOSE k \in 1..Len(text) :
                      /\ MatchesAt(prefix, text, k, ignorecase)
                      /\ \A j \in 1..(k - 1) : ~MatchesAt(prefix, text, j, ignorecase)
         IN  SubSeq(text, i, DigitsEnd(text, i + Len(prefix) + 1))
    ELSE None

\* match.group(0) returned as it stands in the branch name.
extract_ticket_number_raw(branch, prefix) == RegexSearch(prefix, branch, TRUE)

\* GitOperations.extract_ticket_number(branch_name, pattern)
extract_ticket_number(branch, prefix) ==
    LET m == RegexSearch(prefix, branch, TRUE)
    IN  IF m # None THEN Upper(m) ELSE None

STAR == <<"S", "T", "A", "R">>
NONE_REPLY == <<"N", "O", "N", "E">>

\* cli.py: re.match(r"([A-Z]+)-", config.ticket_pattern), else "STAR".
TicketPrefix(prefix) ==
    IF prefix # <<>> /\ \A k \in 1..Len(prefix) : IsUpperLetter(prefix[k])
    THEN prefix
    ELSE STAR

\* The upper-cased reply returned as it stands unless it is empty or NONE.
ParseTicketReplyVerbatim(generated, prefix) ==
    LET r == Upper(Strip(generated))
    IN  IF r = NONE_REPLY \/ r = <<>> THEN None ELSE r

\* The clients' extract_ticket_number after generate returned: the reply
\* parsed into a ticket or None.
ParseTicketReply(generated, prefix) ==
    LET r == Upper(Strip(generated))
    IN  IF r = NONE_REPLY \/ r = <<>> THEN None
        ELSE RegexSearch(Upper(prefix), r, FALSE)

\* What llm_client.extract_ticket_number(branch_name=, ticket_prefix=, model=)
\* does for the client at hand, the backend's outcome being an exception class
\* generate raises or a reply it returns. CopilotClient.extract_ticket_number
\* has no model parameter: the call raises TypeError before any request.
LlmExtract(client, prefix, outcome) ==
    IF client = "copilot" THEN [raised |-> TRUE, cls |-> "TypeError"]
    ELSE IF outcome.raised THEN outcome
    ELSE [raised |-> FALSE, value |-> ParseTicketReply(outcome.reply, prefix)]

\* The generative stage entered whether or not a client was passed.
AfterPatternMissAlwaysLlm(client) == "llm"

\* cli.py, "if llm_client:": where get_ticket_number goes on after the
\* pattern stage found nothing.
AfterPatternMiss(client) == IF client # "none" THEN "llm" ELSE "manual"

\* "except LLMError" in place of "except Exception": any other exception
\* leaves get_ticket_number.
AfterStage2ErrorNarrow(cls) == IF cls = "LLMError" THEN "manual" ELSE "aborted"

\* cli.py, "except Exception as e": where get_ticket_number goes on after the
\* generative stage raised an exception of the class.
AfterStage2Error(cls) == "manual"

----------------------------------------------------------------------------
(* template_parser.py                                                      *)

\* The number of whitespace characters that follow each other from
\* position j on.
RECURSIVE WhitespaceRun(_, _)
WhitespaceRun(t, j) ==
    IF j <= Len(t) /\ IsSpace(t[j]) THEN 1 + WhitespaceRun(t, j + 1) ELSE 0

\* "#{1,3}": a single "#" counted as a section header too.
HeadingLevelsWithTitle == 1..3

\* "#{2,3}" of the pattern: the numbers of "#" a section header starts with.
HeadingLevels == 2..3

\* group(1) of ^#{m}\s+(.+)$ matched against the line, for exactly m "#", or
\* None without a match. \s+ takes all the whitespace it finds and gives one
\* character back when nothing is left for (.+).
HeaderGroup(t, m) ==
    IF /\ Len(t) >= m + 1
       /\ \A k \in 1..m : t[k] = "#"
       /\ IsSpace(t[m + 1])
    THEN LET w == WhitespaceRun(t, m + 1)
         IN  IF m + w < Len(t) THEN SubSeq(t, m + w + 1, Len(t))
             ELSE IF w >= 2 THEN SubSeq(t, m + w, Len(t))
             ELSE None
    ELSE None

\* re.match(pattern, line.strip()): group(1), or None without a match.
MatchHeader(t) ==
    IF \E m \in HeadingLevels : HeaderGroup(t, m) # None
    THEN HeaderGroup(t, CHOOSE m \in HeadingLevels : HeaderGroup(t, m) # None)
    ELSE None

\* The loop over the lines of the template.
RECURSIVE ParseLines(_)
ParseLines(lines) ==
    IF lines = <<>> THEN <<>>
    ELSE LET group == MatchHeader(Strip(Head(lines)))
             header_text == IF group = None THEN <<>> ELSE Strip(group)
         IN  (IF header_text # <<>> THEN <<header_text>> ELSE <<>>)
                 \o ParseLines(Tail(lines))

\* parse_template_sections(template_content)
parse_template_sections(content) ==
    IF content = <<>> THEN <<>> ELSE ParseLines(SplitLines(content))

\* "Why are you making this change?"
DEFAULT_SECTION_WHY ==
    <<"W", "h", "y", " ", "a", "r", "e", " ", "y", "o", "u", " ", "m",
    "a", "k", "i", "n", "g", " ", "t", "h", "i", "s", " ", "c", "h", "a",
    "n", "g", "e", "?">>

\* "What are the possible impacts of your change to production?"
DEFAULT_SECTION_IMPACT ==
    <<"W", "h", "a", "t", " ", "a", "r", "e", " ", "t", "h", "e", " ",
    "p", "o", "s", "s", "i", "b", "l", "e", " ", "i", "m", "p", "a", "c",
    "t", "s", " ", "o", "f", " ", "y", "o", "u", "r", " ", "c", "h", "a",
    "n", "g", "e", " ", "t", "o", " ", "p", "r", "o", "d", "u", "c", "t",
    "i", "o", "n", "?">>

\* "Is there anything else PR reviewers should know about?"
DEFAULT_SECTION_NOTES ==
    <<"I", "s", " ", "t", "h", "e", "r", "e", " ", "a", "n", "y", "t",
    "h", "i", "n", "g", " ", "e", "l", "s", "e", " ", "P", "R", " ", "r",
    "e", "v", "i", "e", "w", "e", "r", "s", " ", "s", "h", "o", "u", "l",
    "d", " ", "k", "n", "o", "w", " ", "a", "b", "o", "u", "t", "?">>

\* The value DEFAULT_SECTIONS is given when the module is loaded.
DEFAULT_SECTIONS ==
    <<DEFAULT_SECTION_WHY, DEFAULT_SECTION_IMPACT, DEFAULT_SECTION_NOTES>>

\* The candidates from the last to the first.
template_paths_reversed ==
    <<"docs/pull_request_template.md", ".github/PULL_REQUEST_TEMPLATE.md",
      ".github/pull_request_template.md">>

\* template_paths of read_pr_template, below the repository root.
template_paths ==
    <<".github/pull_request_template.md", ".github/PULL_REQUEST_TEMPLATE.md",
      "docs/pull_request_template.md">>

\* template_path.exists() and template_path.is_file()
ExistsAsFile(f) == f.kind \in {"unreadable", "file"}

\* The loop of read_pr_template from the i-th candidate on: the text of the
\* first candidate that is a file and whose read_text does not raise.
RECURSIVE ReadFrom(_, _)
ReadFrom(files, i) ==
    IF i > Len(template_paths) THEN None
    ELSE LET f == files[template_paths[i]]
         IN  IF ExistsAsFile(f)
             THEN IF f.kind = "unreadable"
                  THEN ReadFrom(files, i + 1)       \* except Exception: continue
                  ELSE f.text
             ELSE ReadFrom(files, i + 1)

\* read_pr_template(repo_path), the repository's files given
read_pr_template(files) == ReadFrom(files, 1)

\* "return DEFAULT_SECTIONS": the module's list itself is handed out.
DefaultShared(h) == [heap |-> h, ref |-> 0]

\* DEFAULT_SECTIONS.copy(): a new list with the items DEFAULT_SECTIONS holds
\* at that moment.
DefaultCopy(h) ==
    LET r == Len(h) IN [heap |-> Append(h, h[1]), ref |-> r]

\* A list that parse_template_sections has built.
NewList(h, items) == [heap |-> Append(h, items), ref |-> Len(h)]

\* get_pr_template_sections after read_pr_template returned content: the heap
\* after the call and the reference returned.
SectionsFor(h, content) ==
    IF content # None /\ content # <<>>
           /\ parse_template_sections(content) # <<>>
    THEN NewList(h, parse_template_sections(content))
    ELSE DefaultCopy(h)

----------------------------------------------------------------------------
(* config.py: Config and load_config. A source of settings (command line,  *)
(* config file, environment) is a function from the settings it gives to   *)
(* their values.                                                           *)

\* The fields of the dataclass Config with their defaults (the fields that
\* are modelled: one with an environment variable and a command line option,
\* one with an environment variable only, one with a command line flag only).
ConfigDefaults ==
    [model |-> "qwen2.5:3b", ticket_pattern |-> "STAR-(\\d+)", draft_pr |-> FALSE]

\* env_mappings of Config.from_env: the attributes an environment variable
\* sets (PR_AGENT_MODEL, PR_AGENT_TICKET_PATTERN).
EnvAttributes == {"model", "ticket_pattern"}

\* The attributes load_config takes from the file.
FileMergedAttributes == {"model", "ticket_pattern"}

\* Config.from_env(): the defaults, with the values of the variables set.
from_env(env) ==
    [a \in DOMAIN ConfigDefaults |->
        IF a \in EnvAttributes /\ a \in DOMAIN env THEN env[a] ELSE ConfigDefaults[a]]

\* Config.from_dict(data): the defaults, with the values of the keys given.
from_dict(data) ==
    [a \in DOMAIN ConfigDefaults |->
        IF a \in DOMAIN data THEN data[a] ELSE ConfigDefaults[a]]

\* The merge loop of load_config: a value of the file replaces the value so
\* far when it differs from the default.
MergeFile(cfg, file_cfg) ==
    [a \in DOMAIN cfg |->
        IF a \in FileMergedAttributes /\ file_cfg[a] # ConfigDefaults[a]
        THEN file_cfg[a]
        ELSE cfg[a]]

\* Config.merge_with_cli_args(model=, draft=): "model or self.model",
\* "draft if draft is not None else self.draft_pr".
merge_with_cli_args(cfg, args) ==
    [model |-> IF "model" \in DOMAIN args /\ args.model # "" THEN args.model
               ELSE cfg.model,
     ticket_pattern |-> cfg.ticket_pattern,
     draft_pr |-> IF "draft" \in DOMAIN args THEN args.draft ELSE cfg.draft_pr]

\* load_config(config_file, model=, draft=)
load_config(args, file, env) ==
    LET from_environment == from_env(env)
        merged == IF file.exists
                  THEN MergeFile(from_environment, from_dict(file.data))
                  ELSE from_environment
    IN  merge_with_cli_args(merged, args)

----------------------------------------------------------------------------
(* cli.py: the create command.                                             *)

\* The answer to "Create this pull request?" not looked at.
AfterConfirmAlways(answer) == "remote"

\* cli.py lines 426-428: a "no" ends create with sys.exit(0).
AfterConfirm(answer) == IF answer = "yes" THEN "remote" ELSE "exited"

\* The dry-run check left out: the run always goes on to the confirmation.
AfterPreviewWithoutDryRun(dry) == "confirm"

\* "if dry_run: ... sys.exit(0)" after display_preview: where the run goes on.
AfterPreview(dry) == IF dry THEN "exited" ELSE "confirm"

\* What Confirm.ask gives: an answer, or Ctrl-C (KeyboardInterrupt, which
\* create turns into exit status 130).
ConfirmAnswers == {"yes", "no", "interrupt"}

\* How a call of a collaborator (git, gh, the generation backend, the PR
\* generator) ends.
CallOutcomes == {"returned", "raised"}

\* How a call inside the auto-commit try block ends: "raised" is a GitError
\* or an LLMError, which the block catches, "raised_other" any other
\* exception.
CommitOutcomes == {"returned", "raised", "raised_other"}

----------------------------------------------------------------------------
(* pr_generator.py: PRGenerator.generate_description and the section       *)
(* generators it calls.                                                    *)

\* needle in haystack
Contains(haystack, needle) ==
    \E i \in 0..(Len(haystack) - Len(needle)) :
        \A k \in 1..Len(needle) : haystack[i + k] = needle[k]

\* The branch of the section loop taken for the section at index i (from 0).
SectionKind(section, i) ==
    IF Contains(Lower(section), <<"w", "h", "y">>) \/ i = 0 THEN "why"
    ELSE IF Contains(Lower(section), <<"i", "m", "p", "a", "c", "t">>) \/ i = 1
    THEN "impact"
    ELSE "notes"

\* The positional parameters of the prompt builders of prompts.py:
\* generate_why_prompt(user_intent, changed_files),
\* generate_impact_prompt(changed_files, commit_messages),
\* generate_notes_prompt(changed_files, diff_summary).
PromptBuilderParams(kind) == 2

\* The positional arguments the section generators pass: each adds
\* feedback_history.
PromptBuilderArgs(kind) == 3

\* Calling a function with more positional arguments than it has parameters
\* raises TypeError.
BuildPromptRaises(kind) == PromptBuilderArgs(kind) > PromptBuilderParams(kind)

WHY_DIFF_LIMIT == 800
IMPACT_DIFF_LIMIT == 500
NOTES_DIFF_LIMIT == 500

\* The value of repo_diff that stands for get_diff raising an exception.
GetDiffRaised == <<"raised">>

\* generate_description, lines 226-230: the diff, or "" when get_diff raised.
GetDiff(outcome) == IF outcome = GetDiffRaised THEN <<>> ELSE outcome

\* "\n\n... (diff truncated)"
DIFF_TRUNCATED == <<"\n", "\n">> \o TRUNCATION_MARKER

\* generate_description, lines 234-235.
TruncateDiff(d, max) ==
    IF d # <<>> /\ Len(d) > max THEN SubSeq(d, 1, max) \o DIFF_TRUNCATED ELSE d

\* A prompt builder of prompts.py called by its section generator: TypeError
\* for an argument too many, else the prompt. A prompt is kept as what the
\* claims are about: the generator it is for, the feedback items its text
\* holds (the builders put none in) and the diff summary in it, if any.
BuildPrompt(kind, diff_summary) ==
    IF BuildPromptRaises(kind)
    THEN [raised |-> TRUE, cls |-> "TypeError"]
    ELSE [raised |-> FALSE,
          prompt |-> [kind |-> kind, feedback |-> <<>>,
                      has_summary |-> kind = "notes",
                      diff_summary |-> IF kind = "notes" THEN diff_summary ELSE <<>>]]

\* The limit each section generator gives extract_diff_summary.
DiffLimit(kind) ==
    CASE kind = "why" -> WHY_DIFF_LIMIT
      [] kind = "impact" -> IMPACT_DIFF_LIMIT
      [] kind = "notes" -> NOTES_DIFF_LIMIT

\* The diff summary a section generator puts into its prompt for the diff d:
\* generate_why_section line 119, generate_impact_section line 154,
\* generate_notes_section lines 185-187.
SummaryFor(kind, d, max) ==
    LET has == CASE kind = "why" -> d # <<>> /\ Len(d) < max
                 [] kind = "impact" -> d # <<>>
                 [] kind = "notes" -> TRUE
    IN  [has |-> has,
         text |-> IF has /\ d # <<>>
                  THEN extract_diff_summary(d, DiffLimit(kind))
                  ELSE <<>>]

\* generate_why_section, generate_impact_section and generate_notes_section:
\* the prompt is built, the diff summary is added, llm_client.generate is
\* called and the stripped reply is returned.
SectionGenerator(kind, d, max, outcome) ==
    LET s == SummaryFor(kind, d, max)
        built == BuildPrompt(kind, s.text)
    IN  IF built.raised
        THEN [raised |-> TRUE, cls |-> built.cls, sent |-> FALSE]
        ELSE LET prompt == [built.prompt EXCEPT !.has_summary = s.has,
                                                !.diff_summary = s.text]
             IN  IF outcome.raised
                 THEN [raised |-> TRUE, cls |-> outcome.cls, sent |-> TRUE,
                       prompt |-> prompt]
                 ELSE [raised |-> FALSE, sent |-> TRUE, prompt |-> prompt,
                       text |-> Strip(outcome.reply)]

\* The section loop of generate_description from index i on, acc holding
\* the sections stored, the generators called and the prompts sent so far.
RECURSIVE SectionLoop(_, _, _, _, _, _)
SectionLoop(template, i, d, max, outcomes, acc) ==
    IF i = Len(template)
    THEN [raised |-> FALSE, cls |-> "none", index |-> i] @@ acc
    ELSE LET kind == SectionKind(template[i + 1], i)
             g == SectionGenerator(kind, d, max, outcomes[i])
             called == [acc EXCEPT
                          !.calls = Append(@, [index |-> i, kind |-> kind]),
                          !.prompts = IF g.sent THEN Append(@, g.prompt) ELSE @]
         IN  IF g.raised
             THEN [raised |-> TRUE, cls |-> g.cls, index |-> i] @@ called
             ELSE SectionLoop(template, i + 1, d, max, outcomes,
                              [called EXCEPT
                                 !.sections = [k \in DOMAIN @ \cup {i} |->
                                                  IF k = i THEN g.text ELSE @[k]]])

----------------------------------------------------------------------------
(* copilot_auth.py: CopilotAuthenticator._poll_for_token                   *)

\* A status other than 200 taken for the end of the authorization.
PollStepStrict(r, sleep) ==
    IF r.raised
    THEN [do |-> "raise", cls |-> "RequestException", why |-> "request"]
    ELSE IF r.status # 200
    THEN [do |-> "raise", cls |-> "CopilotAuthError", why |-> "access_denied"]
    ELSE IF ~r.json
    THEN [do |-> "raise", cls |-> "JSONDecodeError", why |-> "body"]
    ELSE IF r.access_token # None
    THEN [do |-> "return", token |-> r.access_token]
    ELSE IF r.error = "slow_down"
    THEN [do |-> "continue", interval |-> sleep + 5]
    ELSE IF r.error \in {"expired_token", "access_denied"}
    THEN [do |-> "raise", cls |-> "CopilotAuthError", why |-> r.error]
    ELSE [do |-> "continue", interval |-> sleep]

\* What one pass of the polling loop does with what requests.post gave it:
\* "continue" (with the interval to sleep next), "return" or "raise".
\* An exception of requests.post or of response.json() leaves the function.
PollStep(r, sleep) ==
    IF r.raised
    THEN [do |-> "raise", cls |-> "RequestException", why |-> "request"]
    ELSE IF r.status # 200
    THEN [do |-> "continue", interval |-> sleep]
    ELSE IF ~r.json
    THEN [do |-> "raise", cls |-> "JSONDecodeError", why |-> "body"]
    ELSE IF r.access_token # None
    THEN [do |-> "return", token |-> r.access_token]
    ELSE IF r.error = "authorization_pending"
    THEN [do |-> "continue", interval |-> sleep]
    ELSE IF r.error = "slow_down"
    THEN [do |-> "continue", interval |-> sleep + 5]
    ELSE IF r.error \in {"expired_token", "access_denied"}
    THEN [do |-> "raise", cls |-> "CopilotAuthError", why |-> r.error]
    ELSE [do |-> "continue", interval |-> sleep]

----------------------------------------------------------------------------
(* copilot_auth.py: CopilotAuthenticator.get_copilot_token                 *)

\* timedelta(minutes=5), the clock counting minutes.
EXPIRY_MARGIN == 5

\* The exceptions the try block of get_copilot_token passes over.
CaughtOnLoad == {"FileNotFoundError", "JSONDecodeError", "KeyError"}

\* _load_api_key: None without a file, the exception of open() for a file
\* that cannot be opened or decoded as text, the exception of json.load for
\* text that is no JSON, else the value.
load_api_key(c) ==
    CASE c.kind = "missing" -> [raised |-> FALSE, value |-> c]
      [] c.kind = "unreadable" -> [raised |-> TRUE, cls |-> "OSError"]
      [] c.kind = "garbled" -> [raised |-> TRUE, cls |-> "JSONDecodeError"]
      [] OTHER -> [raised |-> FALSE, value |-> c]

\* bool(api_key_info): None, null and {} are falsy.
Truthy(c) ==
    \/ c.kind = "list"
    \/ c.kind = "dict" /\ (c.has_token \/ c.has_expires)

\* The margin of five minutes left out.
is_token_expired_without_margin(c, clock) ==
    IF c.kind # "dict" THEN [raised |-> TRUE, cls |-> "AttributeError"]
    ELSE IF ~c.has_expires \/ (~c.expires_text /\ c.expires_at = 0)
    THEN [raised |-> FALSE, value |-> TRUE]
    ELSE IF c.expires_text THEN [raised |-> TRUE, cls |-> "TypeError"]
    ELSE [raised |-> FALSE, value |-> clock >= c.expires_at]

\* _is_token_expired: .get of a value that is no dict raises, a missing or
\* zero expires_at is expired, fromtimestamp of a text raises.
is_token_expired(c, clock) ==
    IF c.kind # "dict" THEN [raised |-> TRUE, cls |-> "AttributeError"]
    ELSE IF ~c.has_expires \/ (~c.expires_text /\ c.expires_at = 0)
    THEN [raised |-> FALSE, value |-> TRUE]
    ELSE IF c.expires_text THEN [raised |-> TRUE, cls |-> "TypeError"]
    ELSE [raised |-> FALSE, value |-> clock >= c.expires_at - EXPIRY_MARGIN]

\* Lines 58-63: "return" with the cached token, "raise" with an exception
\* the except clause does not name, or "refresh".
TryCache(c, clock) ==
    LET loaded == load_api_key(c)
    IN  IF loaded.raised
        THEN IF loaded.cls \in CaughtOnLoad
             THEN [do |-> "refresh"]
             ELSE [do |-> "raise", cls |-> loaded.cls]
        ELSE IF ~Truthy(loaded.value) THEN [do |-> "refresh"]
        ELSE LET expired == is_token_expired(loaded.value, clock)
             IN  IF expired.raised
                 THEN IF expired.cls \in CaughtOnLoad
                      THEN [do |-> "refresh"]
                      ELSE [do |-> "raise", cls |-> expired.cls]
                 ELSE IF expired.value THEN [do |-> "refresh"]
                 ELSE IF loaded.value.has_token
                 THEN [do |-> "return", token |-> loaded.value.token]
                 ELSE [do |-> "refresh"]

----------------------------------------------------------------------------
(* Bounds and input pools.                                                 *)

MaxLines == 3       \* lines of a diff
MaxBudget == 8      \* largest max_length tried
MaxTicketLen == 2   \* characters of an enumerated ticket string
MaxReplyLen == 3    \* characters of an enumerated backend reply
MaxSections == 2    \* entries of a template section list

\* Lines a diff is made of: a hunk marker, an added line, a removed line, a
\* context line, a file header, a "diff --git" header and an empty line.
DiffLinePool ==
    { <<"@", "@">>, <<"+", "a">>, <<"-">>, <<"x">>, <<"-", "-", "-">>,
      DIFF_GIT, <<>> }

\* Diff texts: one to MaxLines lines joined by newlines.
DiffTexts == {JoinLines(ls) : ls \in (SeqsUpTo(DiffLinePool, MaxLines) \ {<<>>})}

STAR_5 == <<"S", "T", "A", "R", "-", "5">>
FixBug == <<"F", "i", "x", " ", "b", "u", "g">>

TicketStrings == SeqsUpTo({"S", "1", " "}, MaxTicketLen) \cup {STAR_5}

ReplyStrings ==
    SeqsUpTo({"S", "1", ":", " "}, MaxReplyLen)
        \cup {FixBug, STAR_5 \o <<":", " ">> \o FixBug, <<" ">> \o STAR_5 \o <<":", "x">>}

\* Section headers as parse_template_sections and DEFAULT_SECTIONS give them:
\* non-empty, one line, no surrounding whitespace.
HeaderPool == { <<"A">>, <<"B", " ", "b">> }

NO_ADDITIONAL_NOTES_UPPER ==
    <<"N", "O", " ", "A", "D", "D", "I", "T", "I", "O", "N", "A", "L", " ",
      "N", "O", "T", "E", "S", ".">>

\* Section contents as the section generators return them (response.strip()):
\* empty, plain text, two lines, text holding a markdown heading line, and the
\* sentinel in two spellings.
ContentPool ==
    { <<>>, <<"x">>, <<"x", "\n", "y">>, <<"#", "#", " ", "C">>,
      <<"x", "\n", "#", "#", " ", "C">>,
      NO_ADDITIONAL_NOTES, NO_ADDITIONAL_NOTES_UPPER }

TemplateLists == SeqsUpTo(HeaderPool, MaxSections)

\* Mappings with any subset of the keys section_0 .. section_MaxSections: a
\* key may be missing, and one key lies beyond every template.
SectionMappings == UNION {[K -> ContentPool] : K \in SUBSET (0..MaxSections)}

\* Texts a backend puts in a content or in a block.
BackendTexts == { <<>>, <<" ">>, <<"o", "k">>, <<" ", "o", "k", "\n">> }

\* Blocks of a structured content: without text, with empty text, with text.
BlockPool == {[text |-> None]} \cup {[text |-> t] : t \in BackendTexts}

MaxBlocks == 2      \* blocks of a structured content

Contents ==
    {[t |-> "missing"], [t |-> "other"]}
        \cup {[t |-> "str", v |-> x] : x \in BackendTexts}
        \cup {[t |-> "list", v |-> bs] : bs \in SeqsUpTo(BlockPool, MaxBlocks)}

\* Decoded JSON bodies: no choices key (or null), an empty list, a choice
\* without a message, a choice with a message.
JsonBodies ==
    {[json |-> TRUE, has_choices |-> FALSE, choices |-> <<>>],
     [json |-> TRUE, has_choices |-> TRUE, choices |-> <<>>],
     [json |-> TRUE, has_choices |-> TRUE,
      choices |-> <<[message |-> [t |-> "missing"]]>>]}
        \cup {[json |-> TRUE, has_choices |-> TRUE,
               choices |-> <<[message |-> [t |-> "dict", content |-> c]]>>] :
                 c \in Contents}

StatusCodes == {200, 401, 500}

BackendAnswers ==
    {[kind |-> "refused"], [kind |-> "timeout"]}
        \cup {[kind |-> "http", status |-> st, data |-> d] :
                 st \in StatusCodes, d \in JsonBodies \cup {[json |-> FALSE]}}

\* Branch names: the ticket in front, in the middle, in lower case, with an
\* underscore, concatenated, and none.
BranchNames ==
    { STAR \o <<"-", "9", "-", "x">>,
      <<"f", "/">> \o STAR \o <<"-", "1", "2">>,
      <<"s", "t", "a", "r", "-", "4", "2">>,
      <<"s", "t", "a", "r", "_", "4", "2">>,
      <<"s", "t", "a", "r", "4", "2">>,
      <<"m", "a", "i", "n">> }

MaxTokens == 4      \* pieces a branch name is put together from

\* The pieces of branch names: the prefix with its dash in upper and in
\* lower case, the bare prefix, digits, the two separators and other text.
BranchTokens ==
    { STAR \o <<"-">>, <<"s", "t", "a", "r", "-">>,
      STAR, <<"1">>, <<"2", "3">>, <<"-">>, <<"_">>, <<"x", "/">> }

RECURSIVE Concat(_)
Concat(pieces) ==
    IF pieces = <<>> THEN <<>> ELSE Head(pieces) \o Concat(Tail(pieces))

\* Branch names put together from at most MaxTokens pieces.
BranchTexts == {Concat(ps) : ps \in SeqsUpTo(BranchTokens, MaxTokens)}

\* Pieces of a backend reply to the extraction prompt: the prefix with its
\* dash in upper and lower case, digits, whitespace, NONE in upper and lower
\* case and commentary.
ReplyTokens ==
    { STAR \o <<"-">>, <<"s", "t", "a", "r", "-">>, <<"1">>, <<"2">>, <<" ">>,
      NONE_REPLY, <<"n", "o", "n", "e">>, <<"x">> }

\* Backend replies put together from at most MaxTokens pieces.
ReplyTexts == {Concat(ps) : ps \in SeqsUpTo(ReplyTokens, MaxTokens)}

MaxFeedback == 2    \* items of a feedback list

\* Feedback lists: the items differ, so that their order shows.
FeedbackLists ==
    { [i \in 1..n |-> IF i % 2 = 1 THEN <<"a">> ELSE <<"b">>] : n \in 0..MaxFeedback }

\* What get_diff gives generate_description: an exception, no change, one
\* added line, a hunk marker and an added line.
RepoDiffs ==
    { GetDiffRaised, <<>>, <<"+", "a">>, <<"@", "@", "\n", "+", "a">> }

\* Values of max_diff_tokens: the length of the shorter diff and of the
\* longer one.
DiffTokenLimits == {2, 5}

\* What llm_client.generate does for a section: it raises or it replies.
LoopOutcomes ==
    { [raised |-> TRUE, cls |-> "LLMError"],
      [raised |-> FALSE, reply |-> <<" ", "o", "k", "\n">>],
      [raised |-> FALSE, reply |-> NO_ADDITIONAL_NOTES] }

MaxInterval == 2    \* largest interval of a device code
MaxExpiresIn == 4   \* largest expires_in of a device code

\* The value of last_reply before the first poll.
NoReply ==
    [raised |-> FALSE, status |-> 0, json |-> FALSE, access_token |-> None,
     error |-> "none"]

\* The device codes polled for: interval 0 is there for the division.
DeviceInfos ==
    [interval : 0..MaxInterval, expires_in : 0..MaxExpiresIn]

\* What a poll gets: an exception of requests.post; a status other than
\* 200; a 200 without a JSON body; a 200 with an access token (with an error
\* field beside it or without); a 200 with one of the errors, with an error
\* the loop does not know and with no error field.
PollReplies ==
    { [raised |-> TRUE, status |-> 0, json |-> FALSE,
       access_token |-> None, error |-> "none"] }
      \cup { [raised |-> FALSE, status |-> 500, json |-> FALSE,
              access_token |-> None, error |-> "none"],
             [raised |-> FALSE, status |-> 200, json |-> FALSE,
              access_token |-> None, error |-> "none"],
             [raised |-> FALSE, status |-> 200, json |-> TRUE,
              access_token |-> <<"t">>, error |-> "none"],
             [raised |-> FALSE, status |-> 200, json |-> TRUE,
              access_token |-> <<"u">>, error |-> "slow_down"] }
      \cup { [raised |-> FALSE, status |-> 200, json |-> TRUE,
              access_token |-> None, error |-> e] :
                e \in {"authorization_pending", "slow_down", "expired_token",
                       "access_denied", "unsupported_grant_type", "none"} }

MaxNow == 2         \* latest time of a call, in minutes
MaxExpiresAt == 8   \* latest expiry of a token, in minutes

\* A JSON object with or without a token, with or without expires_at, the
\* latter a number or a text.
ApiKeyInfos(tokens) ==
    { [kind |-> "dict", has_token |-> TRUE, token |-> t, has_expires |-> FALSE,
       expires_text |-> FALSE, expires_at |-> 0] : t \in tokens }
      \cup { [kind |-> "dict", has_token |-> TRUE, token |-> t, has_expires |-> TRUE,
              expires_text |-> TRUE, expires_at |-> 0] : t \in tokens }
      \cup { [kind |-> "dict", has_token |-> h, token |-> t, has_expires |-> TRUE,
              expires_text |-> FALSE, expires_at |-> e] :
                h \in BOOLEAN, t \in tokens, e \in {0} \cup (EXPIRY_MARGIN..MaxExpiresAt) }

\* A file that is no JSON object: kind is "missing", "unreadable" (open or
\* the decoding of its bytes fails), "garbled" (no JSON), "null" or "list".
CacheOfKind(k) ==
    [kind |-> k, has_token |-> FALSE, token |-> <<>>, has_expires |-> FALSE,
     expires_text |-> FALSE, expires_at |-> 0]

\* The states of api-key.json a call finds.
CacheStates ==
    {CacheOfKind(k) : k \in {"missing", "unreadable", "garbled", "null", "list"}}
      \cup ApiKeyInfos({<<"k">>})

\* What the token endpoint returns on success.
ExchangedInfos ==
    { i \in ApiKeyInfos({<<"n">>}) :
        i.has_token /\ ~i.expires_text /\ i.expires_at \in {0, MaxExpiresAt} }

MaxTemplateLines == 3   \* lines of a template

\* Lines of a template: empty, a title, headers of level 2 and 3 (one with
\* more whitespace around, one indented, one ending in a carriage return),
\* a header of level 4, "#" without text or without whitespace, plain text
\* and a header whose text is a "#" after a tab.
TemplateLinePool ==
    { <<>>, <<"#", " ", "T">>, <<"#", "#", " ", "A">>,
      <<"#", "#", "#", " ", " ", "B", " ", "b", " ">>,
      <<" ", "#", "#", " ", "A">>, <<"#", "#", " ", "C", "\r">>,
      <<"#", "#", "#", "#", " ", "D">>, <<"#", "#">>, <<"#", "#", " ">>,
      <<"#", "#", "x">>, <<"x">>, <<"#", "#", "\t", "#">> }

\* Templates of at most MaxTemplateLines lines, the empty file among them.
TemplateTexts ==
    {JoinLines(ls) : ls \in SeqsUpTo(TemplateLinePool, MaxTemplateLines)}

MaxCalls == 2       \* calls of get_pr_template_sections in a run
MaxListLen == 4     \* items of a list a caller appends to

\* What a candidate location holds: nothing, a directory, a file whose
\* read_text raises, or a file with a text (empty, one header, text and a
\* header).
FileStates ==
    {[kind |-> "missing"], [kind |-> "dir"], [kind |-> "unreadable"]}
        \cup {[kind |-> "file", text |-> t] :
                 t \in { <<>>, <<"#", "#", " ", "A">>,
                         <<"x", "\n", "#", "#", "#", " ", "B">> }}

TemplatePathSet == {template_paths[i] : i \in 1..Len(template_paths)}

\* Values of the setting model: the default and another; on the command
\* line also the empty string.
ModelNames == {"qwen2.5:3b", "llama3"}

\* Values of the setting ticket_pattern: the default and another.
TicketPatterns == {"STAR-(\\d+)", "JIRA-(\\d+)"}

\* A key that is not given, or given with one of the values.
Setting(key, values) == {<<>>} \cup {key :> v : v \in values}

CliArguments ==
    {m @@ d : m \in Setting("model", ModelNames \cup {""}),
              d \in Setting("draft", BOOLEAN)}

ConfigFiles ==
    {[exists |-> FALSE]}
        \cup {[exists |-> TRUE, data |-> m @@ t @@ d] :
                 m \in Setting("model", ModelNames),
                 t \in Setting("ticket_pattern", TicketPatterns),
                 d \in Setting("draft_pr", BOOLEAN)}

Environments ==
    {m @@ t : m \in Setting("model", ModelNames),
              t \in Setting("ticket_pattern", TicketPatterns)}

\* Prefixes of config.ticket_pattern: the default, and one in lower case.
PatternPrefixes == { STAR, <<"s", "t", "a", "r">> }

\* What a backend replies to the extraction prompt.
TicketReplies ==
    { STAR \o <<"-", "4", "2">>, NONE_REPLY, <<>>,
      <<"n", "o", "n", "e", "\n">>,
      <<"I", "t", " ", "i", "s", " ", "s", "t", "a", "r", "-", "4", "2", ".">>,
      <<"s", "t", "a", "r", "_", "4", "2">> }

\* Exception classes a generate call raises.
GenerateErrors == {"LLMError", "OllamaNotAvailableError", "ModelNotFoundError", "ValueError"}

Stage2Outcomes ==
    {[raised |-> TRUE, cls |-> c] : c \in GenerateErrors}
        \cup {[raised |-> FALSE, reply |-> r] : r \in TicketReplies}

\* What Prompt.ask returns: the default, a ticket, other text.
ManualInputs ==
    { STAR \o <<"-", "0", "0", "0", "0">>, STAR \o <<"-", "7">>,
      <<"s", "t", "a", "r", " ", "7">>, <<" ", "x">> }

\* Section headers of a repository template: with and without the keywords.
DescriptionHeaders ==
    { <<"W", "h", "y">>, <<"I", "m", "p", "a", "c", "t">>, <<"A">> }

\* What get_pr_template_sections returns is never empty.
DescriptionTemplates == SeqsUpTo(DescriptionHeaders, MaxSections + 1) \ {<<>>}

\* What llm_client.generate does in a section generator: it raises or it
\* returns a reply.
SectionOutcomes ==
    {[raised |-> TRUE, cls |-> c] : c \in GenerateErrors}
        \cup {[raised |-> FALSE, reply |-> r] : r \in BackendTexts}

----------------------------------------------------------------------------
(* Idle values of the variables an operation does not use.                 *)

SummaryIdle ==
    /\ diff = <<>> /\ max_length = 0 /\ summary = None
    /\ max_length2 = 0 /\ summary2 = None

TitleIdle == ticket_number = <<>> /\ reply = None /\ title = None

BodyIdle ==
    /\ template_sections = <<>> /\ sections = <<>>
    /\ body_parts = None /\ body = None

ClientIdle == response = None /\ result = None /\ failures = {}

DescriptionIdle ==
    section_index = 0 /\ description_error = "none" /\ generate_calls = 0

TemplateIdle ==
    /\ template_content = None /\ parsed_sections = None
    /\ template_files = <<>> /\ read_result = None
    /\ heap = <<>> /\ call_log = <<>>

ConfigIdle ==
    cli_args = None /\ file_config = None /\ environ = None /\ config = None

CreateIdle ==
    /\ dry_run = FALSE /\ has_uncommitted = FALSE /\ committed = FALSE
    /\ branch_on_remote = FALSE /\ preview_shown = FALSE
    /\ pushed = FALSE /\ pr_created = FALSE /\ exit_code = None
    /\ content_generated = FALSE /\ creation_confirmed = FALSE
    /\ create_pr_calls = 0 /\ refusal = "none"

ReplyIdle == llm_response = None /\ ticket_prefix = None /\ extracted = None

RunIdle ==
    /\ feedback_history = None /\ repo_diff = None /\ max_diff_tokens = 0
    /\ backend = None /\ generator_calls = <<>> /\ prompts_sent = <<>>

PollIdle ==
    /\ device_info = None /\ interval = 0 /\ max_attempts = 0 /\ attempt = 0
    /\ last_reply = None /\ earlier_token = FALSE /\ poll_result = None

TokenIdle == cache = None /\ now = 0 /\ token_calls = 0 /\ token_call = None

LaterIdle == ReplyIdle /\ RunIdle /\ PollIdle /\ TokenIdle

\* The variables of the template parser, of load_config, of create and of
\* the operations after them at their idle values.
OthersIdle == TemplateIdle /\ ConfigIdle /\ CreateIdle /\ LaterIdle

TicketIdle ==
    /\ branch_name = <<>> /\ ticket_pattern = <<>> /\ llm_client = "none"
    /\ returned_ticket = None /\ method = "none" /\ stage2_error = "none"

----------------------------------------------------------------------------
(* The summarizer applied to a diff, then to its own output with the same  *)
(* or a larger budget.                                                     *)

InitSummary ==
    /\ pc = "start"
    /\ diff \in DiffTexts
    /\ max_length \in -1..MaxBudget
    /\ summary = None /\ max_length2 = 0 /\ summary2 = None
    /\ TitleIdle /\ BodyIdle /\ ClientIdle /\ TicketIdle /\ DescriptionIdle
    /\ OthersIdle

Summarize ==
    /\ pc = "start"
    /\ summary' = extract_diff_summary(diff, max_length)
    /\ pc' = "summarized"
    /\ UNCHANGED <<diff, max_length, max_length2, summary2, titleVars, bodyVars, clientVars, ticketVars, descriptionVars, templateVars, configVars, createVars, laterVars>>

Resummarize ==
    /\ pc = "summarized"
    /\ \E b \in max_length..MaxBudget :
          /\ max_length2' = b
          /\ summary2' = extract_diff_summary(summary, b)
    /\ pc' = "resummarized"
    /\ UNCHANGED <<diff, max_length, summary, titleVars, bodyVars, clientVars, ticketVars, descriptionVars, templateVars, configVars, createVars, laterVars>>

NextSummary == Summarize \/ Resummarize

SpecSummary == InitSummary /\ [][NextSummary]_vars

\* C1: the text extract_diff_summary returns is at most the budget plus one
\* truncation marker long.
C1_SummaryWithinBudget ==
    pc # "start" => Len(summary) <= max_length + Len(TRUNCATION_MARKER)

\* C2 as stated: re-summarizing a summary with the same or a larger budget
\* returns the summary unchanged, also after a truncation.
C2_Idempotent == pc = "resummarized" => summary2 = summary

\* C2 as amended: re-summarizing returns the summary unchanged when the budget
\* is the same, or when it is larger and the first call did not truncate.
C2_IdempotentUnlessTruncated ==
    (/\ pc = "resummarized"
     /\ (max_length2 = max_length \/ ~Truncated(diff, max_length)))
        => summary2 = summary

\* A content line was kept by a call that did not truncate, and the summary
\* was re-summarized with a larger budget.
C2_Witness ==
    /\ pc = "resummarized"
    /\ max_length2 > max_length
    /\ ~Truncated(diff, max_length)
    /\ \E i \in 1..Len(SummaryLines(diff, max_length)) :
          IsContentLine(SummaryLines(diff, max_length)[i])
    /\ summary # diff

\* No line of the text starts with "diff --git", "@@", "+" or "-" (and so
\* none with "+++" or "---"): empty text and text that is no unified diff.
NoDiffLines(d) ==
    \A i \in 1..Len(SplitLines(d)) :
        LET line == SplitLines(d)[i]
        IN  /\ ~StartsWith(line, DIFF_GIT)
            /\ ~StartsWith(line, <<"@", "@">>)
            /\ ~StartsWith(line, <<"+">>)
            /\ ~StartsWith(line, <<"-">>)

\* C18 as stated: extract_diff_summary returns a text for every input and
\* budget, and the empty text for empty text and for text that is no unified
\* diff.
C18_NonDiffGivesEmpty ==
    pc # "start"
        => /\ summary # None
           /\ NoDiffLines(diff) => summary = <<>>

\* C18 as amended: extract_diff_summary returns a text for every input and
\* budget; for empty text and for text that is no unified diff it keeps no
\* line, which gives the empty text when the budget is positive and the
\* truncation marker alone when the budget is zero or negative.
C18_NonDiffKeepsNoLine ==
    pc # "start"
        => /\ summary # None
           /\ NoDiffLines(diff)
                 => summary = IF max_length > 0 THEN <<>> ELSE TRUNCATION_MARKER

\* Text that is no diff, summarized with a positive budget, gave the empty
\* text.
C18_Witness ==
    /\ pc = "summarized"
    /\ diff = <<"x", "\n", "\n", "x">>
    /\ max_length = 5
    /\ summary = <<>>

\* Line i of a git diff lies in a hunk: a hunk-range marker comes before it
\* with no "diff --git" header from that marker to the line.
InHunk(lines, i) ==
    \E h \in 1..(i - 1) :
        /\ StartsWith(lines[h], <<"@", "@">>)
        /\ \A k \in (h + 1)..i :
              ~StartsWith(lines[k], DIFF_GIT) /\ ~StartsWith(lines[k], <<"@", "@">>)

\* Line i is an added or a removed content line: a line of a hunk that
\* starts with "+" or "-".
IsChangeLine(lines, i) ==
    /\ InHunk(lines, i)
    /\ StartsWith(lines[i], <<"+">>) \/ StartsWith(lines[i], <<"-">>)

\* Line i is a structural marker: a "diff --git" header, a hunk-range marker,
\* or a "---" / "+++" file header, which stands outside the hunks.
IsMarkerLine(lines, i) ==
    \/ StartsWith(lines[i], DIFF_GIT)
    \/ StartsWith(lines[i], <<"@", "@">>)
    \/ /\ ~InHunk(lines, i)
       /\ StartsWith(lines[i], <<"+", "+", "+">>)
             \/ StartsWith(lines[i], <<"-", "-", "-">>)

\* C24: of the lines extract_diff_summary looks at, every structural marker
\* (file header, hunk-range marker) is kept and counted, and an added or
\* removed content line is kept only if the size accumulated before it is
\* below 70% of the budget: no content line is kept as a marker.
C24_ContentKeptOnlyBelowReserve ==
    pc # "start"
        => LET lines == SplitLines(diff)
               t == ScanTrace(lines, 1, 0, max_length)
           IN  \A i \in 1..Len(t) :
                   /\ IsMarkerLine(lines, i)
                        => /\ t[i].kept
                           /\ t[i].after = t[i].before + Len(lines[i])
                   /\ (IsChangeLine(lines, i) /\ t[i].kept)
                        => BelowReserve(t[i].before, max_length)

----------------------------------------------------------------------------
(* generate_title applied to a ticket and a backend reply.                 *)

InitTitle ==
    /\ pc = "start"
    /\ ticket_number \in TicketStrings
    /\ reply = None /\ title = None
    /\ SummaryIdle /\ BodyIdle /\ ClientIdle /\ TicketIdle /\ DescriptionIdle
    /\ OthersIdle

\* llm_client.generate returns a reply and the title is post-processed.
GenerateTitle ==
    /\ pc = "start"
    /\ \E r \in ReplyStrings :
          /\ reply' = r
          /\ title' = generate_title(ticket_number, r)
    /\ pc' = "titled"
    /\ UNCHANGED <<ticket_number, summaryVars, bodyVars, clientVars, ticketVars, descriptionVars, templateVars, configVars, createVars, laterVars>>

\* llm_client.generate raises: generate_title raises, no title is returned.
GenerateTitleRaises ==
    /\ pc = "start"
    /\ pc' = "raised"
    /\ UNCHANGED <<titleVars, summaryVars, bodyVars, clientVars, ticketVars, descriptionVars, templateVars, configVars, createVars, laterVars>>

NextTitle == GenerateTitle \/ GenerateTitleRaises

SpecTitle == InitTitle /\ [][NextTitle]_vars

DescriptionOf(r) ==
    IF \E i \in 1..Len(r) : r[i] = ":"
    THEN LET i == CHOOSE k \in 1..Len(r) :
                      r[k] = ":" /\ \A j \in 1..(k - 1) : r[j] # ":"
         IN  Strip(SubSeq(r, i + 1, Len(r)))
    ELSE Strip(r)

\* C25 as stated: for a reply that does not start with the ticket the title
\* is the ticket, ": " and the description; a reply that starts with the
\* ticket is returned trimmed.
C25_TitleIsTicketColonDescription ==
    pc = "titled"
        => IF ~StartsWith(reply, ticket_number)
           THEN title = ticket_number \o <<":", " ">> \o DescriptionOf(reply)
           ELSE title = Strip(reply)

\* C25 as amended: the same for a ticket without leading whitespace and a
\* description that is not empty; with an empty description the title is the
\* ticket and ":" without the space.
C25_TitleIsTrimmedTicketColonDescription ==
    (pc = "titled" /\ LStrip(ticket_number) = ticket_number)
        => IF ~StartsWith(reply, ticket_number)
           THEN IF DescriptionOf(reply) # <<>>
                THEN title = ticket_number \o <<":", " ">> \o DescriptionOf(reply)
                ELSE title = ticket_number \o <<":">>
           ELSE title = Strip(reply)

\* The reply did not start with the ticket and had two colons: the text
\* after the first colon, the second colon included, followed the ticket.
C25_Witness ==
    /\ pc = "titled"
    /\ ticket_number = STAR_5
    /\ reply = <<":", "1", ":">>
    /\ title = STAR_5 \o <<":", " ", "1", ":">>

----------------------------------------------------------------------------
(* format_pr_body applied to a template section list and a sections        *)
(* mapping.                                                                *)

InitBody ==
    /\ pc = "start"
    /\ template_sections \in TemplateLists
    /\ sections \in SectionMappings
    /\ body_parts = None /\ body = None
    /\ SummaryIdle /\ TitleIdle /\ ClientIdle /\ TicketIdle /\ DescriptionIdle
    /\ OthersIdle

FormatPrBody ==
    /\ pc = "start"
    /\ body_parts' = BodyParts(sections, template_sections, 0)
    /\ body' = format_pr_body(sections, template_sections)
    /\ pc' = "formatted"
    /\ UNCHANGED <<template_sections, sections, summaryVars, titleVars, clientVars, ticketVars, descriptionVars, templateVars, configVars, createVars, laterVars>>

NextBody == FormatPrBody

SpecBody == InitBody /\ [][NextBody]_vars

\* The lines of a text that have the form of the headings format_pr_body
\* writes: they start with "## ".
HeadingLinesOf(text) ==
    SelectSeq(SplitLines(text), LAMBDA l : StartsWith(l, <<"#", "#", " ">>))

\* "## <title>" for every template section, in template order.
ExpectedHeadings ==
    [i \in 1..Len(template_sections) |-> <<"#", "#", " ">> \o template_sections[i]]

\* No content the template uses holds a line of the form of a heading.
NoHeadingInContents ==
    \A i \in 0..(Len(template_sections) - 1) :
        HeadingLinesOf(SectionGet(sections, i)) = <<>>

\* C4 as stated: the heading lines of the document are exactly "## <title>"
\* for each template section, in template order, for every sections mapping.
C4_OneHeadingPerSection ==
    pc = "formatted" => HeadingLinesOf(body) = ExpectedHeadings

\* C4 as amended: the same, provided no section content itself holds a line
\* starting with "## "; keys beyond the template add no heading.
C4_OneHeadingPerSectionCleanContents ==
    (pc = "formatted" /\ NoHeadingInContents)
        => HeadingLinesOf(body) = ExpectedHeadings

\* Two sections were formatted, with non-empty contents and a key beyond the
\* template in the mapping.
C4_Witness ==
    /\ pc = "formatted"
    /\ Len(template_sections) = 2
    /\ template_sections[1] # template_sections[2]
    /\ NoHeadingInContents
    /\ 2 \in DOMAIN sections /\ sections[2] # <<>>
    /\ SectionGet(sections, 0) # <<>>
    /\ Len(HeadingLinesOf(body)) = 2

\* The content of the final section as format_pr_body is to emit it.
ExpectedFinalContent ==
    LET content == SectionGet(sections, Len(template_sections) - 1)
    IN  IF content = <<>> \/ Lower(content) = Lower(NO_ADDITIONAL_NOTES)
        THEN NO_ADDITIONAL_NOTES
        ELSE content

\* C5: the document ends with the final heading, a blank line and then the
\* sentinel when the final content is empty, missing or the sentinel in any
\* letter case, and the content unchanged otherwise.
C5_FinalSectionSentinel ==
    (pc = "formatted" /\ template_sections # <<>>)
        => EndsWith(body,
                    <<"#", "#", " ">> \o template_sections[Len(template_sections)]
                        \o <<"\n", "\n">> \o ExpectedFinalContent)

\* The final content was the sentinel in capitals and the document ends with
\* the sentinel as the code spells it.
C5_Witness ==
    /\ pc = "formatted"
    /\ Len(template_sections) = 2
    /\ SectionGet(sections, 1) = NO_ADDITIONAL_NOTES_UPPER
    /\ EndsWith(body, NO_ADDITIONAL_NOTES)

\* The part of body_parts that holds the content of section i (from 0).
ContentPart(i) == body_parts[4 * i + 3]

\* C6 as stated: every section whose content is empty appears with a
\* non-empty placeholder.
C6_EveryEmptySectionHasPlaceholder ==
    pc = "formatted"
        => \A i \in 0..(Len(template_sections) - 1) :
              SectionGet(sections, i) = <<>> => ContentPart(i) # <<>>

\* C6 as amended: only the final section gets the placeholder; a section
\* before it whose content is empty appears with an empty body.
C6_OnlyFinalSectionHasPlaceholder ==
    pc = "formatted"
        => \A i \in 0..(Len(template_sections) - 1) :
              SectionGet(sections, i) = <<>>
                  => ContentPart(i) = IF i = Len(template_sections) - 1
                                      THEN NO_ADDITIONAL_NOTES
                                      ELSE <<>>

\* Both sections of a two-section template had empty content.
C6_Witness ==
    /\ pc = "formatted"
    /\ Len(template_sections) = 2
    /\ SectionGet(sections, 0) = <<>> /\ SectionGet(sections, 1) = <<>>
    /\ ContentPart(0) = <<>> /\ ContentPart(1) = NO_ADDITIONAL_NOTES

----------------------------------------------------------------------------
(* One CopilotClient serving generate calls one after the other, the       *)
(* backend answering each in any of the ways above.                        *)

\* The cases of section 8's failure classification, by the backend answer.
FailureCase(resp) ==
    IF resp.kind = "refused" THEN "unavailable"
    ELSE IF resp.kind = "http" /\ resp.status = 401 THEN "unauthorized"
    ELSE IF /\ resp.kind = "http" /\ resp.status = 200 /\ resp.data.json
            /\ ~generate(resp).ok
         THEN "malformed"
    ELSE "other"

InitClient ==
    /\ pc = "ready"
    /\ response = None /\ result = None /\ failures = {}
    /\ SummaryIdle /\ TitleIdle /\ BodyIdle /\ TicketIdle /\ DescriptionIdle
    /\ OthersIdle

\* A call of generate: the request is sent and the backend answers.
Generate ==
    /\ pc \in {"ready", "generated"}
    /\ \E resp \in BackendAnswers :
          /\ response' = resp
          /\ result' = generate(resp)
          /\ failures' =
                IF ~generate(resp).ok /\ FailureCase(resp) # "other"
                THEN failures \cup {[case |-> FailureCase(resp),
                                     cls |-> generate(resp).cls]}
                ELSE failures
    /\ pc' = "generated"
    /\ UNCHANGED <<summaryVars, titleVars, bodyVars, ticketVars, descriptionVars, templateVars, configVars, createVars, laterVars>>

NextClient == Generate

SpecClient == InitClient /\ [][NextClient]_vars

\* C8: generate never returns an empty text: an answer without usable text
\* makes it raise.
C8_NoEmptySuccess ==
    (pc = "generated" /\ result.ok) => result.text # <<>>

\* C9: the unauthorized, the unavailable and the malformed-response case
\* raise three different kinds of exception: no exception class is raised in
\* two of the cases.
C9_DistinctFailureKinds ==
    \A f, g \in failures : f.case # g.case => f.cls # g.cls

----------------------------------------------------------------------------
(* get_ticket_number: the pattern stage, the generative stage and the      *)
(* manual prompt.                                                          *)

InitTicket ==
    /\ pc = "start"
    /\ branch_name \in BranchNames
    /\ ticket_pattern \in PatternPrefixes
    /\ llm_client \in {"none", "ollama", "copilot"}
    /\ returned_ticket = None /\ method = "none" /\ stage2_error = "none"
    /\ SummaryIdle /\ TitleIdle /\ BodyIdle /\ ClientIdle /\ DescriptionIdle
    /\ OthersIdle

\* Method 1: git_ops.extract_ticket_number; a match is returned at once.
PatternStage ==
    /\ pc = "start"
    /\ LET found == extract_ticket_number(branch_name, ticket_pattern)
       IN  IF found # None
           THEN returned_ticket' = found /\ method' = "regex" /\ pc' = "returned"
           ELSE /\ UNCHANGED <<returned_ticket, method>>
                /\ pc' = AfterPatternMiss(llm_client)
    /\ UNCHANGED <<branch_name, ticket_pattern, llm_client, stage2_error>>
    /\ UNCHANGED <<summaryVars, titleVars, bodyVars, clientVars, descriptionVars, templateVars, configVars, createVars, laterVars>>

\* Method 2: the try block around llm_client.extract_ticket_number.
GenerativeStage ==
    /\ pc = "llm"
    /\ \E outcome \in Stage2Outcomes :
          LET got == LlmExtract(llm_client, TicketPrefix(ticket_pattern), outcome)
          IN  IF got.raised
              THEN /\ stage2_error' = got.cls
                   /\ pc' = AfterStage2Error(got.cls)
                   /\ UNCHANGED <<returned_ticket, method>>
              ELSE IF got.value # None
              THEN /\ returned_ticket' = got.value /\ method' = "llm" /\ pc' = "returned"
                   /\ UNCHANGED stage2_error
              ELSE /\ pc' = "manual"
                   /\ UNCHANGED <<returned_ticket, method, stage2_error>>
    /\ UNCHANGED <<branch_name, ticket_pattern, llm_client>>
    /\ UNCHANGED <<summaryVars, titleVars, bodyVars, clientVars, descriptionVars, templateVars, configVars, createVars, laterVars>>

\* Method 3: Prompt.ask; what it returns is returned as it is.
ManualStage ==
    /\ pc = "manual"
    /\ \E typed \in ManualInputs : returned_ticket' = typed
    /\ method' = "manual"
    /\ pc' = "returned"
    /\ UNCHANGED <<branch_name, ticket_pattern, llm_client, stage2_error>>
    /\ UNCHANGED <<summaryVars, titleVars, bodyVars, clientVars, descriptionVars, templateVars, configVars, createVars, laterVars>>

NextTicket == PatternStage \/ GenerativeStage \/ ManualStage

SpecTicket == InitTicket /\ [][NextTicket]_vars

\* C10: an exception raised in the generative stage never ends
\* get_ticket_number: the run is then at the manual prompt or has returned
\* the value typed there.
C10_Stage2ErrorFallsThrough ==
    stage2_error # "none"
        => \/ pc = "manual" /\ returned_ticket = None
           \/ pc = "returned" /\ method = "manual" /\ returned_ticket \in ManualInputs

\* The backend raised in the generative stage and get_ticket_number returned
\* what was typed at the prompt.
C10_Witness ==
    /\ pc = "returned"
    /\ llm_client = "ollama"
    /\ stage2_error = "OllamaNotAvailableError"
    /\ method = "manual"
    /\ returned_ticket = STAR \o <<"-", "7">>

\* C21: the stages run in the order pattern, generative, manual and the
\* first success wins: the generative stage is entered only from the start,
\* when the pattern stage found nothing and a client was passed; the prompt is
\* shown only when the pattern stage found nothing and either no client was
\* passed or the generative stage has just ended without a ticket; a value is
\* returned by the stage the run stood at, and a pattern match is returned
\* as it is.
C21_StagesInOrder ==
    [][LET found == extract_ticket_number(branch_name, ticket_pattern)
       IN  /\ pc' = "llm" => pc = "start" /\ found = None /\ llm_client # "none"
           /\ pc' = "manual"
                => /\ found = None
                   /\ \/ pc = "start" /\ llm_client = "none"
                      \/ pc = "llm"
                   /\ returned_ticket' = None
           /\ pc' = "returned"
                => \/ pc = "start" /\ method' = "regex" /\ found # None
                         /\ returned_ticket' = found
                   \/ pc = "llm" /\ method' = "llm" /\ returned_ticket' # None
                   \/ pc = "manual" /\ method' = "manual"]_vars

\* Both earlier stages ran and gave nothing (the backend's reply held no
\* ticket), and the value typed at the prompt was returned.
C21_Witness ==
    /\ pc = "returned"
    /\ method = "manual"
    /\ llm_client = "ollama"
    /\ stage2_error = "none"
    /\ extract_ticket_number(branch_name, ticket_pattern) = None

----------------------------------------------------------------------------
(* GitOperations.extract_ticket_number applied to a branch name.           *)

InitExtract ==
    /\ pc = "start"
    /\ branch_name \in BranchTexts
    /\ ticket_pattern \in PatternPrefixes
    /\ llm_client = "none"
    /\ returned_ticket = None /\ method = "none" /\ stage2_error = "none"
    /\ SummaryIdle /\ TitleIdle /\ BodyIdle /\ ClientIdle /\ DescriptionIdle
    /\ OthersIdle

ExtractTicketNumber ==
    /\ pc = "start"
    /\ returned_ticket' = extract_ticket_number(branch_name, ticket_pattern)
    /\ pc' = "extracted"
    /\ UNCHANGED <<branch_name, ticket_pattern, llm_client, method, stage2_error>>
    /\ UNCHANGED <<summaryVars, titleVars, bodyVars, clientVars, descriptionVars, templateVars, configVars, createVars, laterVars>>

NextExtract == ExtractTicketNumber

SpecExtract == InitExtract /\ [][NextExtract]_vars

\* The prefix in any letter case, a dash and a decimal digit stand in the
\* text from position i on.
OccursAt(prefix, text, i) ==
    /\ i >= 1 /\ i + Len(prefix) + 1 <= Len(text)
    /\ Upper(SubSeq(text, i, i + Len(prefix) - 1)) = Upper(prefix)
    /\ text[i + Len(prefix)] = "-"
    /\ IsDigit(text[i + Len(prefix) + 1])

\* r is the occurrence that starts at position i, all its digits included,
\* in upper case.
IsOccurrenceAt(r, prefix, text, i) ==
    /\ OccursAt(prefix, text, i)
    /\ Len(r) >= Len(prefix) + 2
    /\ i + Len(r) - 1 <= Len(text)
    /\ r = Upper(SubSeq(text, i, i + Len(r) - 1))
    /\ \A k \in (Len(prefix) + 2)..Len(r) : IsDigit(r[k])
    /\ i + Len(r) <= Len(text) => ~IsDigit(text[i + Len(r)])

\* C12: for a branch name that holds STAR-<digits> in any letter case at any
\* position, extract_ticket_number with the default pattern returns the
\* first occurrence, upper-cased.
C12_FirstOccurrenceUppercased ==
    (pc = "extracted" /\ ticket_pattern = STAR
        /\ \E i \in 1..Len(branch_name) : OccursAt(STAR, branch_name, i))
    => /\ returned_ticket # None
       /\ \E i \in 1..Len(branch_name) :
             /\ IsOccurrenceAt(returned_ticket, STAR, branch_name, i)
             /\ \A j \in 1..(i - 1) : ~OccursAt(STAR, branch_name, j)

\* A branch name with two occurrences, the first in lower case: the first
\* one came back, in upper case.
C12_Witness ==
    /\ pc = "extracted"
    /\ ticket_pattern = STAR
    /\ branch_name = <<"s", "t", "a", "r", "-", "1">> \o STAR \o <<"-", "2", "3">>
    /\ returned_ticket = STAR \o <<"-", "1">>

\* C13: for a branch name in which the prefix followed by a dash and a
\* decimal digit does not occur in any letter case, extract_ticket_number
\* returns None.
C13_NoOccurrenceGivesNone ==
    (pc = "extracted"
        /\ \A i \in 1..Len(branch_name) : ~OccursAt(ticket_pattern, branch_name, i))
    => returned_ticket = None

\* The underscore form of the ticket gave None.
C13_Witness ==
    /\ pc = "extracted"
    /\ branch_name = STAR \o <<"_", "1">>
    /\ returned_ticket = None

\* An uppercase string of the form <PREFIX>-<digits>: letters A-Z, a dash,
\* decimal digits, nothing else.
IsTicketIdentifier(s) ==
    /\ s # None
    /\ \E d \in 2..(Len(s) - 1) :
          /\ s[d] = "-"
          /\ \A k \in 1..(d - 1) : IsUpperLetter(s[k])
          /\ \A k \in (d + 1)..Len(s) : IsDigit(s[k])

\* C11 as stated: whichever stage produced it, the ticket get_ticket_number
\* returns is an uppercase string of the form <PREFIX>-<digits>.
C11_ReturnedTicketIsCanonical ==
    pc = "returned" => IsTicketIdentifier(returned_ticket)

\* C11 amended: the ticket get_ticket_number returns from the pattern stage
\* or from the generative stage is an uppercase string of the form
\* <PREFIX>-<digits>.
C11_ExtractedTicketIsCanonical ==
    (pc = "returned" /\ method \in {"regex", "llm"})
        => IsTicketIdentifier(returned_ticket)

\* The pattern stage found the ticket in a lower-case branch name and
\* returned it upper-cased.
C11_Witness ==
    /\ pc = "returned"
    /\ method = "regex"
    /\ branch_name = <<"s", "t", "a", "r", "-", "4", "2">>
    /\ returned_ticket = STAR \o <<"-", "4", "2">>

----------------------------------------------------------------------------
(* extract_ticket_number of the clients applied to a backend reply.        *)

InitReply ==
    /\ pc = "start"
    /\ llm_response \in ReplyTexts
    /\ ticket_prefix \in PatternPrefixes
    /\ extracted = None
    /\ SummaryIdle /\ TitleIdle /\ BodyIdle /\ ClientIdle /\ TicketIdle
    /\ DescriptionIdle /\ TemplateIdle /\ ConfigIdle /\ CreateIdle /\ RunIdle
    /\ PollIdle /\ TokenIdle

\* The lines after self.generate returned llm_response.
ParseReply ==
    /\ pc = "start"
    /\ extracted' = ParseTicketReply(llm_response, ticket_prefix)
    /\ pc' = "parsed_reply"
    /\ UNCHANGED <<llm_response, ticket_prefix>>
    /\ UNCHANGED <<summaryVars, titleVars, bodyVars, clientVars, ticketVars,
                   descriptionVars, templateVars, configVars, createVars, runVars,
                   pollVars, tokenVars>>

NextReply == ParseReply

SpecReply == InitReply /\ [][NextReply]_vars

\* C22: the generative extraction returns None when the trimmed, upper-cased
\* reply is empty, is NONE or holds no PREFIX-<digits>; otherwise it returns
\* exactly the first PREFIX-<digits> of the upper-cased reply, all its digits
\* included and nothing around it.
C22_OnlyTheTicketOfTheReply ==
    pc = "parsed_reply"
        => LET r == Upper(Strip(llm_response))
               p == Upper(ticket_prefix)
           IN  IF \/ r = <<>>
                  \/ r = NONE_REPLY
                  \/ ~\E i \in 1..Len(r) : OccursAt(p, r, i)
               THEN extracted = None
               ELSE /\ extracted # None
                    /\ \E i \in 1..Len(r) :
                          /\ IsOccurrenceAt(extracted, p, r, i)
                          /\ \A j \in 1..(i - 1) : ~OccursAt(p, r, j)

\* A reply in lower case with commentary before and after the ticket: the
\* ticket alone came back, in upper case.
C22_Witness ==
    /\ pc = "parsed_reply"
    /\ llm_response = <<"x", "s", "t", "a", "r", "-", "1", "x">>
    /\ extracted = STAR \o <<"-", "1">>

----------------------------------------------------------------------------
(* parse_template_sections applied to a template.                          *)

InitParse ==
    /\ pc = "start"
    /\ template_content \in TemplateTexts
    /\ parsed_sections = None
    /\ template_files = <<>> /\ read_result = None
    /\ heap = <<>> /\ call_log = <<>>
    /\ SummaryIdle /\ TitleIdle /\ BodyIdle /\ ClientIdle /\ TicketIdle
    /\ DescriptionIdle /\ ConfigIdle /\ CreateIdle /\ LaterIdle

ParseTemplateSections ==
    /\ pc = "start"
    /\ parsed_sections' = parse_template_sections(template_content)
    /\ pc' = "parsed"
    /\ UNCHANGED <<template_content, template_files, read_result, heap, call_log>>
    /\ UNCHANGED <<summaryVars, titleVars, bodyVars, clientVars, ticketVars,
                   descriptionVars, configVars, createVars, laterVars>>

NextParse == ParseTemplateSections

SpecParse == InitParse /\ [][NextParse]_vars

\* The number of "#" the text starts with.
RECURSIVE LeadingHashes(_)
LeadingHashes(t) ==
    IF t # <<>> /\ Head(t) = "#" THEN 1 + LeadingHashes(Tail(t)) ELSE 0

\* What is left of the trimmed line after its leading "#", trimmed.
HeadingTextOf(line) ==
    LET t == Strip(line)
    IN  Strip(SubSeq(t, LeadingHashes(t) + 1, Len(t)))

\* The trimmed line consists of 2 or 3 leading "#", whitespace and text.
IsSectionHeading(line) ==
    LET t == Strip(line)
        n == LeadingHashes(t)
    IN  /\ n \in {2, 3}
        /\ n < Len(t)
        /\ IsSpace(t[n + 1])
        /\ HeadingTextOf(line) # <<>>

\* The texts of the lines that are section headings, in their order.
ExpectedSections(content) ==
    LET hs == SelectSeq(SplitLines(content), IsSectionHeading)
    IN  [k \in 1..Len(hs) |-> HeadingTextOf(hs[k])]

\* C15: parse_template_sections returns the trimmed texts of exactly the
\* lines that, trimmed, are 2 or 3 "#", whitespace and text, in their order
\* of appearance and with duplicates kept.
C15_ExactlyTheSectionHeadings ==
    pc = "parsed" => parsed_sections = ExpectedSections(template_content)

\* A header, a header of level 4 and the first header again: the level 4
\* line is left out and the duplicate is kept.
C15_Witness ==
    /\ pc = "parsed"
    /\ template_content =
          <<"#", "#", " ", "A", "\n", "#", "#", "#", "#", " ", "D", "\n",
            "#", "#", " ", "A">>
    /\ parsed_sections = << <<"A">>, <<"A">> >>

----------------------------------------------------------------------------
(* get_pr_template_sections called on a repository, and callers changing   *)
(* the lists it returned.                                                  *)

InitTemplate ==
    /\ pc = "start"
    /\ template_files \in [TemplatePathSet -> FileStates]
    /\ heap = <<DEFAULT_SECTIONS>>
    /\ call_log = <<>>
    /\ read_result = None
    /\ template_content = None /\ parsed_sections = None
    /\ SummaryIdle /\ TitleIdle /\ BodyIdle /\ ClientIdle /\ TicketIdle
    /\ DescriptionIdle /\ ConfigIdle /\ CreateIdle /\ LaterIdle

\* One call: read_pr_template, then the parsed sections or a copy of the
\* defaults. The log keeps the reference returned and the items the list held
\* when it was returned.
GetPrTemplateSections ==
    /\ Len(call_log) < MaxCalls
    /\ LET content == read_pr_template(template_files)
           out == SectionsFor(heap, content)
       IN  /\ read_result' = content
           /\ heap' = out.heap
           /\ call_log' = Append(call_log,
                                 [ref |-> out.ref, value |-> out.heap[out.ref + 1]])
    /\ pc' = "returned"
    /\ UNCHANGED <<template_files, template_content, parsed_sections>>
    /\ UNCHANGED <<summaryVars, titleVars, bodyVars, clientVars, ticketVars,
                   descriptionVars, configVars, createVars, laterVars>>

\* A caller changes a list it was given: list.append or list.clear.
MutateReturnedList ==
    /\ pc = "returned"
    /\ \E k \in 1..Len(call_log) :
          LET r == call_log[k].ref + 1
          IN  \/ /\ Len(heap[r]) < MaxListLen
                 /\ heap' = [heap EXCEPT ![r] = Append(@, <<"X">>)]
              \/ /\ heap[r] # <<>>
                 /\ heap' = [heap EXCEPT ![r] = <<>>]
    /\ UNCHANGED <<pc, template_files, call_log, read_result,
                   template_content, parsed_sections>>
    /\ UNCHANGED <<summaryVars, titleVars, bodyVars, clientVars, ticketVars,
                   descriptionVars, configVars, createVars, laterVars>>

NextTemplate == GetPrTemplateSections \/ MutateReturnedList

SpecTemplate == InitTemplate /\ [][NextTemplate]_vars

\* The candidate locations in the order of the claim.
CandidateOrder ==
    <<".github/pull_request_template.md", ".github/PULL_REQUEST_TEMPLATE.md",
      "docs/pull_request_template.md">>

\* The candidate exists and can be read.
Readable(path) == template_files[path].kind = "file"

\* The content of the first candidate, in the order of the claim, that exists
\* and can be read; None when there is none.
FirstReadable ==
    IF \E i \in 1..3 : Readable(CandidateOrder[i])
    THEN LET i == CHOOSE k \in 1..3 :
                      /\ Readable(CandidateOrder[k])
                      /\ \A j \in 1..(k - 1) : ~Readable(CandidateOrder[j])
         IN  template_files[CandidateOrder[i]].text
    ELSE None

\* No template file can be read, or the template holds no section heading.
FallsBackToDefaults ==
    \/ FirstReadable = None
    \/ ~\E line \in {SplitLines(FirstReadable)[i] :
                        i \in 1..Len(SplitLines(FirstReadable))} :
           IsSectionHeading(line)

\* C14: without a template file, or with a template without headings, every
\* call of get_pr_template_sections returns the three default sections in a
\* list of its own: whatever callers did to the lists of earlier calls, the
\* list returned holds the defaults and DEFAULT_SECTIONS is unchanged.
C14_DefaultsAreIndependentCopies ==
    FallsBackToDefaults
        => /\ heap[1] = DEFAULT_SECTIONS
           /\ Len(DEFAULT_SECTIONS) = 3
           /\ \A k \in 1..Len(call_log) :
                 /\ call_log[k].value = DEFAULT_SECTIONS
                 /\ call_log[k].ref # 0
                 /\ \A j \in 1..(k - 1) : call_log[j].ref # call_log[k].ref

\* No template file; the list of the first call was emptied by its caller
\* and the second call returned the three defaults.
C14_Witness ==
    /\ \A p \in TemplatePathSet : template_files[p].kind = "missing"
    /\ Len(call_log) = 2
    /\ heap[call_log[1].ref + 1] = <<>>
    /\ call_log[2].value = DEFAULT_SECTIONS
    /\ heap[call_log[2].ref + 1] = DEFAULT_SECTIONS

\* C16: read_pr_template returns the content of the first candidate, in the
\* order .github/pull_request_template.md, .github/PULL_REQUEST_TEMPLATE.md,
\* docs/pull_request_template.md, that exists and can be read, going on to
\* the next candidate after a read failure, and None only when no candidate
\* could be read.
C16_FirstReadableCandidate ==
    pc = "returned" => read_result = FirstReadable

\* The first candidate cannot be read, the second and the third can: the
\* content of the second came back.
C16_Witness ==
    /\ pc = "returned"
    /\ template_files[".github/pull_request_template.md"].kind = "unreadable"
    /\ template_files[".github/PULL_REQUEST_TEMPLATE.md"] =
          [kind |-> "file", text |-> <<"#", "#", " ", "A">>]
    /\ template_files["docs/pull_request_template.md"] =
          [kind |-> "file", text |-> <<"x", "\n", "#", "#", "#", " ", "B">>]
    /\ read_result = <<"#", "#", " ", "A">>

----------------------------------------------------------------------------
(* load_config called with command line arguments, a config file and an    *)
(* environment.                                                            *)

InitConfig ==
    /\ pc = "start"
    /\ cli_args \in CliArguments
    /\ file_config \in ConfigFiles
    /\ environ \in Environments
    /\ config = None
    /\ SummaryIdle /\ TitleIdle /\ BodyIdle /\ ClientIdle /\ TicketIdle
    /\ DescriptionIdle /\ TemplateIdle /\ CreateIdle /\ LaterIdle

LoadConfig ==
    /\ pc = "start"
    /\ config' = load_config(cli_args, file_config, environ)
    /\ pc' = "loaded"
    /\ UNCHANGED <<cli_args, file_config, environ>>
    /\ UNCHANGED <<summaryVars, titleVars, bodyVars, clientVars, ticketVars,
                   descriptionVars, templateVars, createVars, laterVars>>

NextConfig == LoadConfig

SpecConfig == InitConfig /\ [][NextConfig]_vars

\* The command line option that sets the attribute, where there is one.
CliOptionOf(a) == IF a = "draft_pr" THEN "draft" ELSE a

\* The value with the highest priority among the sources that give one:
\* command line, config file, environment variable, default.
ByPriority(a) ==
    IF CliOptionOf(a) \in DOMAIN cli_args THEN cli_args[CliOptionOf(a)]
    ELSE IF file_config.exists /\ a \in DOMAIN file_config.data THEN file_config.data[a]
    ELSE IF a \in DOMAIN environ THEN environ[a]
    ELSE ConfigDefaults[a]

\* C19: load_config gives every setting the value of the source with the
\* highest priority that sets it: command line argument, then config file,
\* then environment variable, then default.
C19_PriorityOrder ==
    pc = "loaded" => \A a \in DOMAIN ConfigDefaults : config[a] = ByPriority(a)

----------------------------------------------------------------------------
(* The create command, step by step. The calls of its collaborators end in *)
(* either way (returned or raised) at every step.                          *)

InitCreate ==
    /\ pc = "start"
    /\ dry_run \in BOOLEAN
    /\ has_uncommitted \in BOOLEAN
    /\ branch_on_remote \in BOOLEAN
    /\ committed = FALSE /\ preview_shown = FALSE
    /\ pushed = FALSE /\ pr_created = FALSE
    /\ exit_code = None
    /\ content_generated = FALSE /\ creation_confirmed = FALSE
    /\ create_pr_calls = 0 /\ refusal = "none"
    /\ SummaryIdle /\ TitleIdle /\ BodyIdle /\ ClientIdle /\ TicketIdle
    /\ DescriptionIdle /\ TemplateIdle /\ ConfigIdle /\ LaterIdle

\* sys.exit(code), also from the except clauses at the end of create.
Exit(code) == pc' = "exited" /\ exit_code' = code

createFrame ==
    UNCHANGED <<summaryVars, titleVars, bodyVars, clientVars, ticketVars,
                descriptionVars, templateVars, configVars, laterVars>>

\* Lines 266-308: load_config, the components, validate_prerequisites, the
\* base branch, the current branch and the ticket number.
Prepare ==
    /\ pc = "start"
    /\ \E outcome \in CallOutcomes \cup {"interrupt"} :
          CASE outcome = "returned" -> pc' = "uncommitted" /\ UNCHANGED exit_code
            [] outcome = "raised" -> Exit(1)
            [] outcome = "interrupt" -> Exit(130)
    /\ UNCHANGED <<dry_run, has_uncommitted, committed, branch_on_remote,
                   preview_shown, pushed, pr_created>>
    /\ UNCHANGED <<content_generated, creation_confirmed, create_pr_calls, refusal>>
    /\ createFrame

\* Lines 311-366: the offer to commit uncommitted changes.
HandleUncommitted ==
    /\ pc = "uncommitted"
    /\ IF ~has_uncommitted
       THEN pc' = "commits" /\ UNCHANGED <<committed, exit_code>>
       ELSE \E commit \in ConfirmAnswers, files \in {"none", "some"},
               generated \in CommitOutcomes, use \in ConfirmAnswers,
               committing \in CommitOutcomes, continue \in ConfirmAnswers :
              LET AskContinue ==
                      CASE continue = "yes" -> pc' = "commits" /\ UNCHANGED exit_code
                        [] continue = "no" -> Exit(0)
                        [] continue = "interrupt" -> Exit(130)
              IN  CASE commit = "interrupt" -> Exit(130) /\ UNCHANGED committed
                    [] commit = "no" -> AskContinue /\ UNCHANGED committed
                    [] commit = "yes" ->
                         IF files = "none"
                         THEN pc' = "commits" /\ UNCHANGED <<committed, exit_code>>
                         ELSE IF generated = "raised_other"
                         THEN Exit(1) /\ UNCHANGED committed
                         ELSE IF generated = "raised"
                         THEN AskContinue /\ UNCHANGED committed
                         ELSE CASE use = "interrupt" -> Exit(130) /\ UNCHANGED committed
                                [] use = "no" -> AskContinue /\ UNCHANGED committed
                                [] use = "yes" ->
                                     IF committing = "raised_other"
                                     THEN Exit(1) /\ UNCHANGED committed
                                     ELSE IF committing = "raised"
                                     THEN AskContinue /\ UNCHANGED committed
                                     ELSE /\ committed' = TRUE
                                          /\ pc' = "commits"
                                          /\ UNCHANGED exit_code
    /\ UNCHANGED <<dry_run, has_uncommitted, branch_on_remote, preview_shown,
                   pushed, pr_created>>
    /\ UNCHANGED <<content_generated, creation_confirmed, create_pr_calls, refusal>>
    /\ createFrame

\* Lines 369-388: no commits against the base branch ends the run.
CheckCommits ==
    /\ pc = "commits"
    /\ \E commit_count \in {"raised", "zero", "some"} :
          IF commit_count = "some"
          THEN pc' = "generate" /\ UNCHANGED exit_code
          ELSE Exit(1)
    /\ UNCHANGED <<dry_run, has_uncommitted, committed, branch_on_remote,
                   preview_shown, pushed, pr_created>>
    /\ UNCHANGED <<content_generated, creation_confirmed, create_pr_calls, refusal>>
    /\ createFrame

\* Lines 391-415: the purpose is asked for, then the title and the
\* description are generated.
GenerateContent ==
    /\ pc = "generate"
    /\ \E outcome \in CallOutcomes \cup {"interrupt"} :
          /\ content_generated' = (outcome = "returned")
          /\ CASE outcome = "returned" -> pc' = "preview" /\ UNCHANGED exit_code
               [] outcome = "raised" -> Exit(1)
               [] outcome = "interrupt" -> Exit(130)
    /\ UNCHANGED <<dry_run, has_uncommitted, committed, branch_on_remote,
                   preview_shown, pushed, pr_created>>
    /\ UNCHANGED <<creation_confirmed, create_pr_calls, refusal>>
    /\ createFrame

\* Lines 418-423: display_preview, then the dry-run check.
Preview ==
    /\ pc = "preview"
    /\ preview_shown' = TRUE
    /\ IF AfterPreview(dry_run) = "exited"
       THEN Exit(0)
       ELSE pc' = AfterPreview(dry_run) /\ UNCHANGED exit_code
    /\ UNCHANGED <<dry_run, has_uncommitted, committed, branch_on_remote,
                   pushed, pr_created>>
    /\ UNCHANGED <<content_generated, creation_confirmed, create_pr_calls, refusal>>
    /\ createFrame

\* Lines 426-428: "Create this pull request?"
ConfirmCreation ==
    /\ pc = "confirm"
    /\ \E answer \in ConfirmAnswers :
          /\ creation_confirmed' = (answer = "yes")
          /\ refusal' = IF answer = "no" THEN "declined_creation" ELSE refusal
          /\ IF answer = "interrupt" THEN Exit(130)
             ELSE IF AfterConfirm(answer) = "exited" THEN Exit(0)
             ELSE pc' = AfterConfirm(answer) /\ UNCHANGED exit_code
    /\ UNCHANGED <<dry_run, has_uncommitted, committed, branch_on_remote,
                   preview_shown, pushed, pr_created>>
    /\ UNCHANGED <<content_generated, create_pr_calls>>
    /\ createFrame

\* Lines 432-440: the branch is pushed, after a question, when it is not on
\* the remote.
CheckRemoteAndPush ==
    /\ pc = "remote"
    /\ IF branch_on_remote
       THEN pc' = "create_pr" /\ UNCHANGED <<pushed, branch_on_remote, exit_code, refusal>>
       ELSE \E answer \in ConfirmAnswers, push \in CallOutcomes :
              CASE answer = "interrupt" ->
                     Exit(130) /\ UNCHANGED <<pushed, branch_on_remote, refusal>>
                [] answer = "no" ->
                     /\ Exit(1) /\ UNCHANGED <<pushed, branch_on_remote>>
                     /\ refusal' = "declined_push"
                [] answer = "yes" ->
                     IF push = "raised"
                     THEN /\ Exit(1) /\ UNCHANGED <<pushed, branch_on_remote>>
                          /\ refusal' = "push_failed"
                     ELSE /\ pushed' = TRUE
                          /\ branch_on_remote' = TRUE
                          /\ pc' = "create_pr"
                          /\ UNCHANGED <<exit_code, refusal>>
    /\ UNCHANGED <<dry_run, has_uncommitted, committed, preview_shown, pr_created>>
    /\ UNCHANGED <<content_generated, creation_confirmed, create_pr_calls>>
    /\ createFrame

\* Lines 445-456: github_ops.create_pull_request.
CreatePullRequest ==
    /\ pc = "create_pr"
    /\ \E outcome \in CallOutcomes :
          IF outcome = "returned"
          THEN pr_created' = TRUE /\ pc' = "done" /\ UNCHANGED exit_code
          ELSE Exit(1) /\ UNCHANGED pr_created
    /\ create_pr_calls' = create_pr_calls + 1
    /\ UNCHANGED <<dry_run, has_uncommitted, committed, branch_on_remote,
                   preview_shown, pushed>>
    /\ UNCHANGED <<content_generated, creation_confirmed, refusal>>
    /\ createFrame

NextCreate ==
    \/ Prepare \/ HandleUncommitted \/ CheckCommits \/ GenerateContent
    \/ Preview \/ ConfirmCreation \/ CheckRemoteAndPush \/ CreatePullRequest

SpecCreate == InitCreate /\ [][NextCreate]_vars

\* C20: in a run of create with --dry-run the branch is never pushed by the
\* tool and no pull request is created: the run never gets to the
\* confirmation, the remote-branch check, push_current_branch or
\* create_pull_request.
C20_DryRunNeverPushesOrCreates ==
    dry_run
        => /\ ~pushed
           /\ ~pr_created
           /\ pc \notin {"confirm", "remote", "create_pr", "done"}

\* A dry run for a branch that is not on the remote showed the preview and
\* ended there with exit status 0.
C20_Witness ==
    /\ dry_run
    /\ pc = "exited"
    /\ preview_shown
    /\ exit_code = 0
    /\ ~branch_on_remote /\ ~pushed /\ ~pr_created

\* C29: create_pull_request is called at most once, and only after the
\* title and the description were generated, then the creation was
\* confirmed, then the branch was found on the remote or pushed; after a
\* declined confirmation, a declined push or a failed push the run has ended
\* without a call of create_pull_request.
C29_PullRequestOnlyAfterAllSteps ==
    /\ create_pr_calls <= 1
    /\ pr_created => create_pr_calls = 1
    /\ (create_pr_calls > 0 \/ pc = "create_pr")
          => content_generated /\ creation_confirmed /\ branch_on_remote
    /\ creation_confirmed => content_generated
    /\ pushed => creation_confirmed
    /\ refusal # "none"
          => pc = "exited" /\ create_pr_calls = 0 /\ ~pr_created

\* The branch was not on the remote: after the generation, the confirmation
\* and the push the pull request was created with one call.
C29_Witness ==
    /\ pc = "done"
    /\ content_generated /\ creation_confirmed
    /\ pushed
    /\ create_pr_calls = 1
    /\ pr_created

----------------------------------------------------------------------------
(* generate_description as one call, from the diff to the document or the  *)
(* exception.                                                              *)

InitRun ==
    /\ pc = "start"
    /\ template_sections \in DescriptionTemplates
    /\ feedback_history \in FeedbackLists
    /\ repo_diff \in RepoDiffs
    /\ max_diff_tokens \in DiffTokenLimits
    /\ backend \in [0..MaxSections -> LoopOutcomes]
    /\ generator_calls = <<>> /\ prompts_sent = <<>>
    /\ sections = <<>> /\ body_parts = None /\ body = None
    /\ section_index = 0 /\ description_error = "none" /\ generate_calls = 0
    /\ SummaryIdle /\ TitleIdle /\ ClientIdle /\ TicketIdle
    /\ TemplateIdle /\ ConfigIdle /\ CreateIdle /\ ReplyIdle /\ PollIdle
    /\ TokenIdle

\* generate_description(user_intent, base_branch, feedback_history)
GenerateDescription ==
    /\ pc = "start"
    /\ LET d == TruncateDiff(GetDiff(repo_diff), max_diff_tokens)
           run == SectionLoop(template_sections, 0, d, max_diff_tokens, backend,
                              [sections |-> <<>>, calls |-> <<>>, prompts |-> <<>>])
       IN  /\ generator_calls' = run.calls
           /\ prompts_sent' = run.prompts
           /\ sections' = run.sections
           /\ section_index' = run.index
           /\ generate_calls' = Len(run.prompts)
           /\ description_error' = run.cls
           /\ IF run.raised
              THEN pc' = "raised" /\ UNCHANGED <<body_parts, body>>
              ELSE /\ body_parts' = BodyParts(run.sections, template_sections, 0)
                   /\ body' = format_pr_body(run.sections, template_sections)
                   /\ pc' = "described"
    /\ UNCHANGED <<template_sections, feedback_history, repo_diff, max_diff_tokens,
                   backend>>
    /\ UNCHANGED <<summaryVars, titleVars, clientVars, ticketVars, templateVars,
                   configVars, createVars, replyVars, pollVars, tokenVars>>

NextRun == GenerateDescription

SpecRun == InitRun /\ [][NextRun]_vars

\* The generator the claim gives the section at index i (from 0).
GeneratorFor(section, i) ==
    IF i = 0 \/ Contains(Lower(section), <<"w", "h", "y">>) THEN "why"
    ELSE IF i = 1 \/ Contains(Lower(section), <<"i", "m", "p", "a", "c", "t">>)
    THEN "impact"
    ELSE "notes"

\* llm_client.generate answers whenever it is called.
EveryCallAnswered ==
    \A i \in 0..(Len(template_sections) - 1) : ~backend[i].raised

\* C23: every template section is sent to exactly one generator, rationale
\* for index 0 or a title with "why", else impact for index 1 or a title
\* with "impact", else notes; the sections are generated in index order and
\* each result is stored under its section's own index. Stated of the runs
\* in which the backend answers every call.
C23_EverySectionToItsGenerator ==
    (pc # "start" /\ EveryCallAnswered)
        => /\ Len(generator_calls) = Len(template_sections)
           /\ \A i \in 0..(Len(template_sections) - 1) :
                 /\ generator_calls[i + 1] =
                       [index |-> i, kind |-> GeneratorFor(template_sections[i + 1], i)]
                 /\ i \in DOMAIN sections
                 /\ sections[i] = Strip(backend[i].reply)
           /\ DOMAIN sections = 0..(Len(template_sections) - 1)

\* C26: the section generators called with a feedback list succeed, and
\* every prompt they send holds the items of the list, all of them, verbatim
\* and in the order given. Stated of the runs in which the backend answers
\* every call.
C26_FeedbackReachesEveryPrompt ==
    (pc # "start" /\ EveryCallAnswered)
        => /\ description_error = "none"
           /\ Len(prompts_sent) = Len(template_sections)
           /\ \A k \in 1..Len(prompts_sent) :
                 prompts_sent[k].feedback = feedback_history

----------------------------------------------------------------------------
(* _poll_for_token called with a device code, poll by poll.                *)

InitPoll ==
    /\ pc = "start"
    /\ device_info \in DeviceInfos
    /\ interval = 0 /\ max_attempts = 0 /\ attempt = 0
    /\ last_reply = NoReply /\ earlier_token = FALSE /\ poll_result = None
    /\ SummaryIdle /\ TitleIdle /\ BodyIdle /\ ClientIdle /\ TicketIdle
    /\ DescriptionIdle /\ TemplateIdle /\ ConfigIdle /\ CreateIdle
    /\ ReplyIdle /\ RunIdle /\ TokenIdle

\* The poll got a 200 whose JSON body has an access_token field.
CarriesToken(r) ==
    /\ ~r.raised
    /\ r.status = 200 /\ r.json /\ r.access_token # None

pollFrame ==
    UNCHANGED <<summaryVars, titleVars, bodyVars, clientVars, ticketVars,
                descriptionVars, templateVars, configVars, createVars,
                replyVars, runVars, tokenVars>>

\* Lines 168-170: interval, expires_in and max_attempts.
StartPolling ==
    /\ pc = "start"
    /\ interval' = device_info.interval
    /\ IF device_info.interval = 0
       THEN /\ pc' = "ended"
            /\ poll_result' = [do |-> "raise", cls |-> "ZeroDivisionError",
                                why |-> "interval"]
            /\ UNCHANGED max_attempts
       ELSE /\ pc' = "polling"
            /\ max_attempts' = device_info.expires_in \div device_info.interval
            /\ UNCHANGED poll_result
    /\ UNCHANGED <<device_info, attempt, last_reply, earlier_token>>
    /\ pollFrame

\* One pass of the loop: sleep, post, look at the reply.
Poll ==
    /\ pc = "polling"
    /\ attempt < max_attempts
    /\ \E r \in PollReplies :
          LET step == PollStep(r, interval)
          IN  /\ last_reply' = r
              /\ earlier_token' = (earlier_token \/ CarriesToken(last_reply))
              /\ attempt' = attempt + 1
              /\ IF step.do = "continue"
                 THEN interval' = step.interval /\ UNCHANGED <<pc, poll_result>>
                 ELSE pc' = "ended" /\ poll_result' = step /\ UNCHANGED interval
    /\ UNCHANGED <<device_info, max_attempts>>
    /\ pollFrame

\* Line 206: the loop ran out.
PollTimeout ==
    /\ pc = "polling"
    /\ attempt = max_attempts
    /\ pc' = "ended"
    /\ poll_result' = [do |-> "raise", cls |-> "CopilotAuthError", why |-> "timeout"]
    /\ UNCHANGED <<device_info, interval, max_attempts, attempt, last_reply,
                   earlier_token>>
    /\ pollFrame

NextPoll == StartPolling \/ Poll \/ PollTimeout

SpecPoll == InitPoll /\ [][NextPoll]_vars

\* time.sleep returns and requests.post has a timeout of 30 seconds: a pass
\* of the loop that has begun ends.
SpecPollFair == SpecPoll /\ WF_vars(NextPoll)

\* The latest poll got one of the replies that let the loop go on: a status
\* other than 200, authorization_pending or slow_down.
GotWaitingReply ==
    /\ last_reply # NoReply
    /\ ~last_reply.raised
    /\ \/ last_reply.status # 200
       \/ /\ last_reply.json /\ last_reply.access_token = None
          /\ last_reply.error \in {"authorization_pending", "slow_down"}

\* _poll_for_token returned the access token of the first reply with one.
ReturnedFirstToken ==
    /\ poll_result.do = "return"
    /\ CarriesToken(last_reply) /\ ~earlier_token
    /\ poll_result.token = last_reply.access_token

\* It raised CopilotAuthError on an expired_token or access_denied reply.
RaisedOnRefusal ==
    /\ poll_result.do = "raise" /\ poll_result.cls = "CopilotAuthError"
    /\ poll_result.why \in {"expired_token", "access_denied"}
    /\ last_reply # NoReply /\ ~last_reply.raised
    /\ last_reply.status = 200 /\ last_reply.json
    /\ last_reply.error = poll_result.why

\* It raised the timeout CopilotAuthError after the last attempt.
RaisedTimeout ==
    /\ poll_result.do = "raise" /\ poll_result.cls = "CopilotAuthError"
    /\ poll_result.why = "timeout"
    /\ attempt = max_attempts

\* An exception of requests.post or of response.json() left it.
RaisedByRequest ==
    /\ poll_result.do = "raise"
    /\ poll_result.cls \in {"RequestException", "JSONDecodeError"}
    /\ last_reply # NoReply
    /\ last_reply.raised \/ (last_reply.status = 200 /\ ~last_reply.json)

\* At most expires_in // interval polls, with the interval of the device
\* code, and no end of the loop on a waiting reply before the last attempt.
PollsBounded ==
    /\ attempt <= device_info.expires_in \div device_info.interval
    /\ max_attempts = device_info.expires_in \div device_info.interval
    /\ (pc = "ended" /\ GotWaitingReply)
          => attempt = max_attempts /\ RaisedTimeout

----------------------------------------------------------------------------
(* get_copilot_token called on a token directory, the clock going on       *)
(* between the calls.                                                      *)

InitToken ==
    /\ pc = "start"
    /\ cache \in CacheStates
    /\ now \in 0..MaxNow
    /\ token_calls = 0
    /\ token_call = None
    /\ SummaryIdle /\ TitleIdle /\ BodyIdle /\ ClientIdle /\ TicketIdle
    /\ DescriptionIdle /\ TemplateIdle /\ ConfigIdle /\ CreateIdle
    /\ ReplyIdle /\ RunIdle /\ PollIdle

tokenFrame ==
    UNCHANGED <<summaryVars, titleVars, bodyVars, clientVars, ticketVars,
                descriptionVars, templateVars, configVars, createVars,
                replyVars, runVars, pollVars>>

\* The record of a call: the cache and the time it found, whether it went
\* for a new token, whether the exchange was made and failed, and its end.
CallRecord(sought, exchange_failed, raised, cls, token) ==
    [before |-> cache, at |-> now, sought |-> sought,
     exchange_failed |-> exchange_failed, raised |-> raised, cls |-> cls,
     token |-> token]

\* One call of get_copilot_token: the cache is tried; failing that the
\* access token is fetched, exchanged, and the answer is saved.
GetCopilotToken ==
    /\ token_calls < MaxCalls
    /\ token_calls' = token_calls + 1
    /\ pc' = "called"
    /\ LET tried == TryCache(cache, now)
       IN  CASE tried.do = "return" ->
                  /\ token_call' = CallRecord(FALSE, FALSE, FALSE, "none", tried.token)
                  /\ UNCHANGED cache
             [] tried.do = "raise" ->
                  /\ token_call' = CallRecord(FALSE, FALSE, TRUE, tried.cls, <<>>)
                  /\ UNCHANGED cache
             [] tried.do = "refresh" ->
                  \/ \* _get_access_token raises
                     /\ token_call' = CallRecord(TRUE, FALSE, TRUE, "CopilotAuthError", <<>>)
                     /\ UNCHANGED cache
                  \/ \* _exchange_for_copilot_token raises
                     /\ token_call' = CallRecord(TRUE, TRUE, TRUE, "CopilotAuthError", <<>>)
                     /\ UNCHANGED cache
                  \/ \* the exchange succeeds, _save_api_key raises: open()
                     \* failed, or the file was cut short
                     /\ token_call' = CallRecord(TRUE, FALSE, TRUE, "OSError", <<>>)
                     /\ cache' \in {cache, CacheOfKind("garbled")}
                  \/ \* the exchange succeeds and its answer is saved
                     \E info \in ExchangedInfos :
                        /\ token_call' = CallRecord(TRUE, FALSE, FALSE, "none", info.token)
                        /\ cache' = info
    /\ UNCHANGED now
    /\ tokenFrame

\* Time goes by between two calls.
Tick ==
    /\ pc = "called"
    /\ now < MaxNow + EXPIRY_MARGIN
    /\ now' = now + 1
    /\ UNCHANGED <<pc, cache, token_calls, token_call>>
    /\ tokenFrame

NextToken == GetCopilotToken \/ Tick

SpecToken == InitToken /\ [][NextToken]_vars

\* The cache holds a token whose expires_at lies more than five minutes
\* after the time t.
HoldsFreshToken(c, t) ==
    /\ c.kind = "dict" /\ c.has_token
    /\ c.has_expires /\ ~c.expires_text
    /\ c.expires_at - t > 5

\* The cache can be opened and decoded as text, and the JSON in it, if any,
\* is null or an object whose expires_at, if any, is a number.
WellFormedOrAbsent(c) ==
    \/ c.kind \in {"missing", "garbled", "null"}
    \/ c.kind = "dict" /\ ~c.expires_text

\* What holds of the latest call whatever the cache was: the cached token
\* is returned without an exchange exactly when it is fresh, after a
\* successful call the cache holds the token returned, and a failed
\* exchange leaves the cache as it was.
CachedOnlyWhenFresh ==
    /\ (~token_call.raised /\ ~token_call.sought)
          => /\ HoldsFreshToken(token_call.before, token_call.at)
             /\ token_call.token = token_call.before.token
    /\ HoldsFreshToken(token_call.before, token_call.at)
          => ~token_call.raised /\ ~token_call.sought
    /\ ~token_call.raised
          => cache.kind = "dict" /\ cache.has_token /\ cache.token = token_call.token
    /\ token_call.exchange_failed => cache = token_call.before

DiffGiven ==
    LET d == IF repo_diff = GetDiffRaised THEN <<>> ELSE repo_diff
    IN  IF Len(d) > max_diff_tokens
        THEN SubSeq(d, 1, max_diff_tokens) \o DIFF_TRUNCATED
        ELSE d

\* The repository diff has max_diff_tokens characters or more.
DiffIsLarge ==
    /\ repo_diff # GetDiffRaised
    /\ repo_diff # <<>>
    /\ Len(repo_diff) >= max_diff_tokens

\* C30: whenever the repository diff has max_diff_tokens characters or
\* more, the rationale prompt holds no diff summary, while every impact and
\* notes prompt holds a summary of the diff as given to the generators.
\* Stated of the runs in which the backend answers every call.
C30_LargeDiffOnlyInImpactAndNotes ==
    (pc # "start" /\ EveryCallAnswered /\ DiffIsLarge)
        => /\ Len(prompts_sent) = Len(template_sections)
           /\ \A k \in 1..Len(prompts_sent) :
                 LET p == prompts_sent[k]
                 IN  /\ p.kind = GeneratorFor(template_sections[k], k - 1)
                     /\ p.kind = "why" => ~p.has_summary
                     /\ p.kind = "impact"
                          => /\ p.has_summary
                             /\ p.diff_summary = extract_diff_summary(DiffGiven, IMPACT_DIFF_LIMIT)
                     /\ p.kind = "notes"
                          => /\ p.has_summary
                             /\ p.diff_summary = extract_diff_summary(DiffGiven, NOTES_DIFF_LIMIT)

----------------------------------------------------------------------------
(* generate_description: the section loop and the final formatting.        *)

InitDescription ==
    /\ pc = "loop"
    /\ template_sections \in DescriptionTemplates
    /\ sections = <<>> /\ body_parts = None /\ body = None
    /\ section_index = 0 /\ description_error = "none" /\ generate_calls = 0
    /\ SummaryIdle /\ TitleIdle /\ ClientIdle /\ TicketIdle
    /\ OthersIdle

\* One pass of the section loop: the section generator of the section's kind
\* builds its prompt, calls llm_client.generate and returns the stripped
\* reply; an exception in either leaves generate_description.
GenerateSection ==
    /\ pc = "loop"
    /\ section_index < Len(template_sections)
    /\ LET kind == SectionKind(template_sections[section_index + 1], section_index)
       IN  IF BuildPromptRaises(kind)
           THEN /\ pc' = "raised"
                /\ description_error' = "TypeError"
                /\ UNCHANGED <<sections, section_index, generate_calls>>
           ELSE \E outcome \in SectionOutcomes :
                   /\ generate_calls' = generate_calls + 1
                   /\ IF outcome.raised
                      THEN /\ pc' = "raised"
                           /\ description_error' = outcome.cls
                           /\ UNCHANGED <<sections, section_index>>
                      ELSE /\ sections' =
                                [k \in DOMAIN sections \cup {section_index} |->
                                    IF k = section_index THEN Strip(outcome.reply)
                                    ELSE sections[k]]
                           /\ section_index' = section_index + 1
                           /\ UNCHANGED <<pc, description_error>>
    /\ UNCHANGED <<template_sections, body_parts, body>>
    /\ UNCHANGED <<summaryVars, titleVars, clientVars, ticketVars, templateVars, configVars, createVars, laterVars>>

\* After the loop: return self.format_pr_body(sections, template_sections).
FormatDescription ==
    /\ pc = "loop"
    /\ section_index = Len(template_sections)
    /\ body_parts' = BodyParts(sections, template_sections, 0)
    /\ body' = format_pr_body(sections, template_sections)
    /\ pc' = "described"
    /\ UNCHANGED <<template_sections, sections, descriptionVars, templateVars, configVars, createVars, laterVars>>
    /\ UNCHANGED <<summaryVars, titleVars, clientVars, ticketVars, templateVars, configVars, createVars, laterVars>>

NextDescription == GenerateSection \/ FormatDescription

SpecDescription == InitDescription /\ [][NextDescription]_vars

\* The first section generator raises TypeError when it builds its prompt:
\* no run of generate_description calls llm_client.generate for a section or
\* returns a document.
NoSectionIsGenerated ==
    /\ generate_calls = 0
    /\ pc # "described"
    /\ pc = "raised" => description_error = "TypeError" /\ section_index = 0

Spec == SpecTicket

====
